---- MODULE Spec2Model ----
(***************************************************************************)
(* State-machine model of the VoteSecure server (src/server.js): the OTP   *)
(* ledger, voter registration with duplicate detection, voter sessions,    *)
(* ballot casting and the admin operations on elections and voters.        *)
(*                                                                         *)
(* Conventions                                                             *)
(*  - a JavaScript string is a sequence of one-character strings;          *)
(*  - wall-clock time is in milliseconds since the server started          *)
(*    (Date.now() - start); toISOString()/new Date(iso) round-trip a       *)
(*    millisecond instant exactly and are kept as the instant;             *)
(*  - a face-descriptor component is an integer number of 1/20ths, and     *)
(*    euclidean() is represented by the square of the distance in those    *)
(*    units (Math.sqrt is strictly monotone, so every comparison of two    *)
(*    distances is the comparison of their squares; floating-point         *)
(*    rounding is not modelled);                                           *)
(*  - uuidv4() is modelled as a fresh identifier (a counter).              *)
(*  - a request is one that the rate limiters (lim, which are no-ops when  *)
(*    express-rate-limit is absent) let through; a request to a needVoter  *)
(*    route comes from a client holding a voter session, and a request to  *)
(*    a needAdmin route from a logged-in admin;                            *)
(*  - handlers are synchronous, so each request is one atomic step; the    *)
(*    last section splits the register and vote handlers at the point      *)
(*    between readJSON and writeJSON, as two servers on one data directory *)
(*    interleave them.                                                     *)
(***************************************************************************)
EXTENDS Integers, Sequences, FiniteSets, TLC

VARIABLES
    otpStore,   \* Map phone -> {otp, expiresAt, verified, attempts}
    voters,     \* voters.json: sequence of voter records
    votes,      \* votes.json: sequence of vote records
    elections,  \* elections.json: sequence of election records
    sessions,   \* the req.session.voter objects held by clients
    now,        \* Date.now(), ms since the server started
    nextUuid,   \* number of uuidv4() values drawn so far
    last,       \* the last request and its response
    otpHist,    \* history of the OTP operations per phone (for the properties)
    env,        \* the host: NODE_ENV === 'production', offset of local time
    inflight    \* requests served in parallel: what each has read and will write

vars ==
    <<otpStore, voters, votes, elections, sessions, now, nextUuid, last, otpHist,
      env, inflight>>

(***************************************************************************)
(* Strings                                                                 *)
(***************************************************************************)
Digits == <<"0", "1", "2", "3", "4", "5", "6", "7", "8", "9">>

UpperSeq == <<"A", "B", "C", "D", "E", "F", "G", "H", "I", "J", "K", "L", "M",
              "N", "O", "P", "Q", "R", "S", "T", "U", "V", "W", "X", "Y", "Z">>

LowerSeq == <<"a", "b", "c", "d", "e", "f", "g", "h", "i", "j", "k", "l", "m",
              "n", "o", "p", "q", "r", "s", "t", "u", "v", "w", "x", "y", "z">>

Range(s) == {s[i] : i \in DOMAIN s}

DigitChars == Range(Digits)

UpperChars == Range(UpperSeq)

LowerChars == Range(LowerSeq)

\* String.prototype.toLowerCase on one character
LowerChar(c) ==
    IF c \in UpperChars
    THEN LowerSeq[CHOOSE i \in DOMAIN UpperSeq : UpperSeq[i] = c]
    ELSE c

\* String.prototype.toUpperCase on one character
UpperChar(c) ==
    IF c \in LowerChars
    THEN UpperSeq[CHOOSE i \in DOMAIN LowerSeq : LowerSeq[i] = c]
    ELSE c

toLowerCase(s) == [i \in DOMAIN s |-> LowerChar(s[i])]

toUpperCase(s) == [i \in DOMAIN s |-> UpperChar(s[i])]

\* s.replace(/[^...]/g, '') : keep the characters of the class
RECURSIVE KeepChars(_, _)
KeepChars(s, class) ==
    IF s = <<>> THEN <<>>
    ELSE IF Head(s) \in class THEN <<Head(s)>> \o KeepChars(Tail(s), class)
         ELSE KeepChars(Tail(s), class)

\* s.replace(/[...]/g, '') : drop the characters of the class
RECURSIVE DropChars(_, _)
DropChars(s, class) ==
    IF s = <<>> THEN <<>>
    ELSE IF Head(s) \in class THEN DropChars(Tail(s), class)
         ELSE <<Head(s)>> \o DropChars(Tail(s), class)

\* s.replace(/<[^>]*>/g, '') : drop every "<" up to the first ">" after it
RECURSIVE StripTags(_)
StripTags(s) ==
    IF s = <<>> THEN <<>>
    ELSE IF Head(s) = "<" /\ \E j \in 2..Len(s) : s[j] = ">"
         THEN LET j == CHOOSE k \in 2..Len(s) :
                          s[k] = ">" /\ \A m \in 2..(k - 1) : s[m] # ">"
              IN  StripTags(SubSeq(s, j + 1, Len(s)))
         ELSE <<Head(s)>> \o StripTags(Tail(s))

\* String.prototype.trim (the only white space modelled is the blank)
RECURSIVE TrimLeft(_)
TrimLeft(s) == IF s # <<>> /\ Head(s) = " " THEN TrimLeft(Tail(s)) ELSE s

RECURSIVE TrimRight(_)
TrimRight(s) ==
    IF s # <<>> /\ s[Len(s)] = " " THEN TrimRight(SubSeq(s, 1, Len(s) - 1)) ELSE s

trim(s) == TrimRight(TrimLeft(s))

\* s.slice(0, n)
SliceTo(s, n) == IF Len(s) <= n THEN s ELSE SubSeq(s, 1, n)

\* s.slice(-n)
SliceLast(s, n) == IF Len(s) <= n THEN s ELSE SubSeq(s, Len(s) - n + 1, Len(s))

\* the class of quote characters, semicolon, slash and backslash ("DQ" stands
\* for the double quote, "BQ" for the back quote, "BS" for the backslash)
SanitizeStripped == {"'", "DQ", "BQ", ";", "BS", "/"}

sanitize(s) == SliceTo(trim(DropChars(StripTags(s), SanitizeStripped)), 500)

Letters == UpperChars \cup LowerChars

NameChars == Letters \cup {" ", "-", ".", "'"}

sanitizeName(s) == SliceTo(trim(KeepChars(s, NameChars)), 100)

IdChars == Letters \cup DigitChars \cup {"-"}

sanitizeId(s) == SliceTo(trim(toUpperCase(KeepChars(s, IdChars))), 20)

\* sanitize(phone||'').replace(/\D/g,'').slice(-10)
PhoneLen == 10

cleanPhone(raw) == SliceLast(KeepChars(sanitize(raw), DigitChars), PhoneLen)

\* Number.prototype.toString (base 10) of a natural number
RECURSIVE NatToString(_)
NatToString(n) ==
    IF n < 10 THEN <<Digits[n + 1]>>
    ELSE NatToString(n \div 10) \o <<Digits[(n % 10) + 1]>>

\* the decimal form of an integer, as in a template literal
IntToString(n) == IF n < 0 THEN <<"-">> \o NatToString(0 - n) ELSE NatToString(n)

(***************************************************************************)
(* Maps (the JavaScript Map otpStore)                                      *)
(***************************************************************************)
MapSet(m, k, v) == [x \in DOMAIN m \cup {k} |-> IF x = k THEN v ELSE m[x]]

MapDelete(m, k) == [x \in DOMAIN m \ {k} |-> m[x]]

EmptyMap == [x \in {} |-> 0]

\* the function f with every value computed, for the tables below
Tabulated(f) == f @@ EmptyMap

(***************************************************************************)
(* Requests and responses                                                  *)
(***************************************************************************)
\* res.status(status).json({error, type, ...}) in answer to request op
Resp(op, status, error, type, out) ==
    [op |-> op, status |-> status, error |-> error, type |-> type, out |-> out]

NoRequest == Resp("none", 0, "", "", <<>>)

Ok(r) == r.status = 200

(***************************************************************************)
(* Time and dates                                                          *)
(***************************************************************************)
MinuteMs == 60 * 1000

DayMs == 24 * 60 * MinuteMs

\* the calendar day (UTC) on which the server started: instant 0 of the clock
StartDate == [y |-> 2025, m |-> 1, d |-> 10]

IsLeap(y) == (y % 4 = 0 /\ y % 100 # 0) \/ y % 400 = 0

DaysInMonth(y, m) ==
    IF m = 2 THEN (IF IsLeap(y) THEN 29 ELSE 28)
    ELSE IF m \in {4, 6, 9, 11} THEN 30 ELSE 31

NextDay(date) ==
    IF date.d < DaysInMonth(date.y, date.m) THEN [date EXCEPT !.d = @ + 1]
    ELSE IF date.m < 12 THEN [y |-> date.y, m |-> date.m + 1, d |-> 1]
    ELSE [y |-> date.y + 1, m |-> 1, d |-> 1]

PrevDay(date) ==
    IF date.d > 1 THEN [date EXCEPT !.d = @ - 1]
    ELSE IF date.m > 1
    THEN [y |-> date.y, m |-> date.m - 1, d |-> DaysInMonth(date.y, date.m - 1)]
    ELSE [y |-> date.y - 1, m |-> 12, d |-> 31]

RECURSIVE AddDays(_, _)
AddDays(date, n) ==
    IF n = 0 THEN date
    ELSE IF n < 0 THEN AddDays(PrevDay(date), n + 1)
    ELSE AddDays(NextDay(date), n - 1)

\* the UTC calendar day of instant t
DateOf(t) == AddDays(StartDate, t \div DayMs)

\* offsets of local time from UTC, in ms: the hosts considered
HourMs == 60 * MinuteMs

TimeZones == {0 - 8 * HourMs, 0, 5 * HourMs + 30 * MinuteMs}

\* new Date() at instant t: getFullYear(), getMonth()+1, getDate(), which
\* read the calendar day in the local time of the host
LocalDateOf(t) == AddDays(StartDate, (t + env.tz) \div DayMs)

DigitVal(c) == (CHOOSE i \in DOMAIN Digits : Digits[i] = c) - 1

AllDigits(s) == \A i \in DOMAIN s : s[i] \in DigitChars

RECURSIVE ParseNat(_)
ParseNat(s) ==
    IF s = <<>> THEN 0
    ELSE 10 * ParseNat(SubSeq(s, 1, Len(s) - 1)) + DigitVal(s[Len(s)])

InvalidDate == [ok |-> FALSE, y |-> 0, m |-> 0, d |-> 0]

\* new Date(vr.dob) for a date of birth written YYYY-MM-DD naming a day of the
\* calendar; any other string is taken to give an Invalid Date
ParseDate(s) ==
    IF /\ Len(s) = 10 /\ s[5] = "-" /\ s[8] = "-"
       /\ AllDigits(SubSeq(s, 1, 4)) /\ AllDigits(SubSeq(s, 6, 7))
       /\ AllDigits(SubSeq(s, 9, 10))
    THEN LET y == ParseNat(SubSeq(s, 1, 4))
             m == ParseNat(SubSeq(s, 6, 7))
             d == ParseNat(SubSeq(s, 9, 10))
         IN  IF m \in 1..12 /\ d >= 1 /\ d <= DaysInMonth(y, m)
             THEN [ok |-> TRUE, y |-> y, m |-> m, d |-> d]
             ELSE InvalidDate
    ELSE InvalidDate

\* dob.getFullYear(), dob.getMonth()+1, dob.getDate(): a date-only string is
\* parsed as midnight UTC, which west of UTC is still the day before
LocalDob(dob) ==
    IF dob.ok /\ env.tz < 0
    THEN [ok |-> TRUE] @@ PrevDay([y |-> dob.y, m |-> dob.m, d |-> dob.d])
    ELSE dob

\* let age=now.getFullYear()-dob.getFullYear(); if(now.getMonth()<dob.getMonth()
\* ||(now.getMonth()===dob.getMonth()&&now.getDate()<dob.getDate())) age--;
AgeAt(dob, today) ==
    IF today.m < dob.m \/ (today.m = dob.m /\ today.d < dob.d)
    THEN today.y - dob.y - 1
    ELSE today.y - dob.y

\* the clock advances by d ms, up to limit
Tick(d, limit) ==
    /\ now + d <= limit
    /\ now' = now + d
    /\ last' = Resp("tick", 0, "", "", <<>>)
    /\ UNCHANGED <<otpStore, voters, votes, elections, sessions, nextUuid,
                   otpHist, env, inflight>>

(***************************************************************************)
(* Face descriptors                                                        *)
(***************************************************************************)
\* faceDescriptor.length!==128
FaceLen == 128

\* a descriptor component v stands for the number v / FaceScale
FaceScale == 4 * 5

\* the sum of f[lo..hi], halving the range
RECURSIVE SumRange(_, _, _)
SumRange(f, lo, hi) ==
    IF lo > hi THEN 0
    ELSE IF lo = hi THEN f[lo]
    ELSE LET mid == (lo + hi) \div 2
         IN  SumRange(f, lo, mid) + SumRange(f, mid + 1, hi)

\* faceDescriptor.reduce((a,b)=>a+b,0)
SumSeq(s) == SumRange(s, 1, Len(s))

\* Math.min(...faceDescriptor)
MinSeq(s) == CHOOSE x \in Range(s) : \A y \in Range(s) : x <= y

\* Math.max(...faceDescriptor)
MaxSeq(s) == CHOOSE x \in Range(s) : \A y \in Range(s) : y <= x

\* the sentinel 999 of euclidean(), as a squared distance
SentinelSq == (999 * FaceScale) * (999 * FaceScale)

\* d<0.45, on squared distances: 0.45^2 = 2025/10000
FaceThresholdSq == ((45 * FaceScale) * (45 * FaceScale)) \div (100 * 100)

\* let s=0; for(...){const d=a[i]-b[i];s+=d*d;}
SumSqDiff(a, b) ==
    SumRange([i \in DOMAIN a |-> (a[i] - b[i]) * (a[i] - b[i])], 1, Len(a))

\* (fd_max-fd_min)<0.02||fd_mean<0.005
Degenerate(fd) ==
    \/ (MaxSeq(fd) - MinSeq(fd)) * 100 < 2 * FaceScale
    \/ SumSeq(fd) * 1000 < 5 * FaceScale * Len(fd)

(***************************************************************************)
(* Inputs: the request bodies the scenarios draw from                      *)
(***************************************************************************)
PhoneA == <<"9", "8", "7", "6", "5", "4", "3", "2", "1", "0">>

PhoneB == <<"9", "1", "2", "3", "4", "5", "6", "7", "8", "9">>

\* "+91 98765-43210": the number PhoneA as a user may type it
PhoneATyped ==
    <<"+", "9", "1", " ">> \o SubSeq(PhoneA, 1, 5) \o <<"-">> \o SubSeq(PhoneA, 6, 10)

PhoneShort == <<"1", "2", "3", "4", "5">>

PhoneC == <<"9", "0", "0", "0", "0", "0", "0", "0", "0", "7">>

RawPhones == {PhoneA, PhoneB, PhoneC, PhoneATyped, PhoneShort}

NameAnn == <<"A", "n", "n">>

NameAnnCaps == <<"A", "N", "N">>

NameBob == <<"B", "o", "b">>

DobA == <<"2", "0", "0", "0", "-", "0", "1", "-", "1", "5">>

DobB == <<"2", "0", "0", "7", "-", "0", "1", "-", "1", "1">>

Addr == <<"1", " ", "M", "a", "i", "n">>

Aadhaar == <<"a", "a", "d", "h", "a", "a", "r">>

\* a descriptor that varies in its first three components
Face(a, b, c) == <<a, b, c>> \o [i \in 1..(FaceLen - 3) |-> 2]

FaceBase == Face(30, 2, 2)

\* at distance 8/20 = 0.40 from FaceBase
FaceNear == Face(38, 2, 2)

\* at distance sqrt(49+16+16)/20 = 0.45 from FaceBase, 0.29 from FaceNear
FaceEdge == Face(37, 6, 6)

\* far from the three above
FaceFar == Face(2, 60, 2)

\* 0.50 from FaceBase, 0.10 from FaceNear
FaceTen == Face(40, 2, 2)

\* 0.25 from FaceBase and from FaceTen
FaceMid == Face(35, 2, 2)

ScenarioFaces == {FaceBase, FaceNear, FaceEdge, FaceFar, FaceTen, FaceMid}

\* the loop of euclidean(), computed once for each pair of scenario descriptors
DistTable ==
    Tabulated([p \in ScenarioFaces \X ScenarioFaces |-> SumSqDiff(p[1], p[2])])

\* function euclidean(a,b), squared; a missing descriptor is the empty sequence
euclidean(a, b) ==
    IF a = <<>> \/ b = <<>> \/ Len(a) # Len(b) THEN SentinelSq
    ELSE IF <<a, b>> \in DOMAIN DistTable THEN DistTable[<<a, b>>]
    ELSE SumSqDiff(a, b)

FaceInput(vals) == [isArray |-> TRUE, vals |-> vals, bad |-> FALSE]

RegReq(name, dob, phone, vals, proof) ==
    [name |-> name, dob |-> dob, phone |-> phone, address |-> Addr,
     face |-> FaceInput(vals), proofType |-> Aadhaar, proofVerified |-> proof]

\* the registration of the OTP scenario
OtpRegReqs == {RegReq(NameAnn, DobA, PhoneATyped, FaceBase, TRUE)}

\* the registrations of the duplicate-detection scenario
DupRegReqs ==
    {RegReq(nd[1], nd[2], phone, vals, TRUE) :
        nd \in {<<NameAnn, DobA>>, <<NameAnnCaps, DobA>>, <<NameAnn, DobB>>},
        phone \in {PhoneA, PhoneB},
        vals \in {FaceBase, FaceNear, FaceEdge}}
    \cup {RegReq(NameAnn, DobA, PhoneA, FaceBase, FALSE),
          RegReq(<<"A">>, DobA, PhoneA, FaceBase, TRUE)}

\* the registrations of the voting scenario
VoteRegReqs == {RegReq(NameBob, DobB, PhoneB, FaceFar, TRUE)}

\* a descriptor whose components are all equal
FaceFlat == Face(2, 2, 2)

\* the defects a registration body can carry, in the order of the gates that
\* catch them
BodyDefects == <<"name", "dob", "phone", "shape", "corrupt", "flat", "proof">>

\* the body with the defects d: a one-letter name, no DOB, a short phone, a
\* descriptor of the wrong length, with an element that is no finite number,
\* with all components equal, and an unverified proof
GateBody(d) ==
    [name |-> IF "name" \in d THEN <<"A">> ELSE NameAnn,
     dob |-> IF "dob" \in d THEN <<>> ELSE DobA,
     phone |-> IF "phone" \in d THEN PhoneShort ELSE PhoneA,
     address |-> Addr,
     face |-> [isArray |-> TRUE,
               vals |-> IF "shape" \in d
                        THEN (IF "flat" \in d THEN <<2, 2, 2>> ELSE <<30, 2, 2>>)
                        ELSE IF "flat" \in d THEN FaceFlat ELSE FaceBase,
               bad |-> "corrupt" \in d],
     proofType |-> Aadhaar,
     proofVerified |-> "proof" \notin d]

\* the registrations of the gate scenario: a body with one defect, for every
\* defect; a body with a defect and all the later ones, for every defect; a
\* body without defects; a descriptor that is no array; a second person
GateRegReqs ==
    {GateBody({BodyDefects[i]}) : i \in 1..Len(BodyDefects)}
    \cup {GateBody({BodyDefects[j] : j \in i..Len(BodyDefects)}) :
            i \in 1..(Len(BodyDefects) + 1)}
    \cup {[GateBody({}) EXCEPT
             !.face = [isArray |-> FALSE, vals |-> <<>>, bad |-> FALSE]],
          RegReq(NameBob, DobB, PhoneB, FaceFar, TRUE)}

\* a date of birth typed as n/a
DobNone == <<"n", "/", "a">>

NameCid == <<"C", "i", "d">>

\* the registrations of the eligibility scenario, of which one succeeds: a
\* person born on 2007-01-11, or a person who does not give a date
EligRegReqs ==
    {RegReq(NameBob, DobB, PhoneB, FaceFar, TRUE),
     RegReq(NameCid, DobNone, PhoneB, FaceFar, TRUE)}

\* three people with distinct phones and distinct name and date of birth, so
\* that only their faces can collide
FacePeople ==
    {<<NameAnn, DobA, PhoneA>>, <<NameBob, DobB, PhoneB>>, <<NameCid, DobA, PhoneC>>}

FaceRegReqs ==
    {RegReq(p[1], p[2], p[3], vals, TRUE) :
        p \in FacePeople, vals \in {FaceBase, FaceTen, FaceNear, FaceMid}}

AllRegReqs ==
    OtpRegReqs \cup DupRegReqs \cup VoteRegReqs \cup GateRegReqs \cup EligRegReqs
        \cup FaceRegReqs

(***************************************************************************)
(* OTP ledger                                                              *)
(***************************************************************************)
\* expiresAt: Date.now()+5*60*1000
OtpTtl == 5 * 60 * 1000

MaxAttempts == 5

\* crypto.randomInt(min, max): min <= n < max
RandomInt(min, max) == min..(max - 1)

\* the numbers tried as the draw of crypto.randomInt(100000,999999)
OtpCandidates == {0, 99999, 100000, 654321, 999999}

OtpDraws == {n \in OtpCandidates : n \in RandomInt(100000, 999999)}

WrongCode == <<"0", "0", "0", "0", "0", "0">>

\* what a client may type as the code: a code the server can draw, one with a
\* blank after it, a code no send has produced
TypedCodes ==
    {NatToString(n) : n \in OtpDraws}
        \cup {NatToString(100000) \o <<" ">>} \cup {WrongCode}

ErrPhone == "Valid 10-digit phone required."
ErrNoOtp == "No OTP sent to this number."
ErrExpired == "OTP expired. Resend."
ErrTooMany == "Too many attempts. Resend OTP."
ErrWrongOtp == "Wrong OTP."

\* const clean = sanitize(req.body.phone||'').replace(/\D/g,'').slice(-10),
\* computed once for each phone of the scenarios
PhoneTable == Tabulated([raw \in RawPhones |-> cleanPhone(raw)])

clean(raw) == PhoneTable[raw]

\* sanitize(req.body.otp||'') and the trim() of the comparison, computed once
\* for each code of the scenarios
CodeTable == Tabulated([code \in TypedCodes |-> trim(sanitize(code))])

\* History of the OTP operations on a phone since its last successful send:
\* the code sent, when, the verify calls made since, whether one of them
\* succeeded (and no registration has used it), whether a registration has
\* consumed the cycle, whether the send came right after a lockout.
\* the request before this one was a verify call rejected for too many
\* attempts
JustLockedOut == last.op = "verify" /\ last.error = ErrTooMany

NewHist(otp, t) ==
    [code |-> otp, sentAt |-> t, calls |-> 0, verified |-> FALSE,
     consumed |-> FALSE, afterLockout |-> JustLockedOut]

HistVerify(h, P, ok) ==
    IF P \in DOMAIN h
    THEN [h EXCEPT ![P].calls = @ + 1, ![P].verified = @ \/ ok]
    ELSE h

HistRegister(h, P) ==
    IF P \in DOMAIN h
    THEN [h EXCEPT ![P].verified = FALSE, ![P].consumed = TRUE]
    ELSE h

\* otpStore.set(clean,{otp,expiresAt:Date.now()+5*60*1000,verified:false,attempts:0})
NewOtpRecord_Spent(otp, t) ==
    [otp |-> otp, expiresAt |-> t + OtpTtl, verified |-> FALSE,
     attempts |-> MaxAttempts]

NewOtpRecord(otp, t) ==
    [otp |-> otp, expiresAt |-> t + OtpTtl, verified |-> FALSE, attempts |-> 0]

\* POST /api/otp/send with body {phone: raw}; n is the draw of crypto.randomInt
SendOtp(raw, n) ==
    LET otp == NatToString(n)
    IN  /\ n \in RandomInt(100000, 999999)
        /\ IF Len(clean(raw)) < PhoneLen
           THEN /\ last' = Resp("send", 400, ErrPhone, "", <<>>)
                /\ UNCHANGED <<otpStore, otpHist>>
           ELSE /\ otpStore' = MapSet(otpStore, clean(raw), NewOtpRecord(otp, now))
                /\ otpHist' = MapSet(otpHist, clean(raw), NewHist(otp, now))
                /\ last' = Resp("send", 200, "", "", <<otp>>)
        /\ UNCHANGED <<voters, votes, elections, sessions, now, nextUuid,
                       env, inflight>>

\* Date.now()>rec.expiresAt
OtpExpired_AtDeadline(rec, t) == t >= rec.expiresAt

OtpExpired(rec, t) == t > rec.expiresAt

\* rec.attempts>5 (after rec.attempts++)
TooManyAttempts_Never(attempts) == FALSE

TooManyAttempts_Late(attempts) == attempts > MaxAttempts + 1

TooManyAttempts(attempts) == attempts > MaxAttempts

\* rec.otp!==otp.trim(), otp = sanitize(req.body.otp||'')
OtpMatches_Always(rec, rawOtp) == TRUE

OtpMatches(rec, rawOtp) == rec.otp = CodeTable[rawOtp]

\* The handler of POST /api/otp/verify as a function of the ledger, the time
\* and the request: the response and the ledger it leaves.
VerifyOutcome_WrongUnverifies(store, t, raw, rawOtp) ==
    IF clean(raw) \notin DOMAIN store
    THEN [store |-> store, resp |-> Resp("verify", 400, ErrNoOtp, "", <<>>)]
    ELSE LET rec == store[clean(raw)]
             att == rec.attempts + 1
         IN  IF OtpExpired(rec, t)
             THEN [store |-> MapDelete(store, clean(raw)),
                   resp |-> Resp("verify", 400, ErrExpired, "", <<>>)]
             ELSE IF TooManyAttempts(att)
             THEN [store |-> MapDelete(store, clean(raw)),
                   resp |-> Resp("verify", 400, ErrTooMany, "", <<>>)]
             ELSE IF ~OtpMatches(rec, rawOtp)
             THEN [store |-> [store EXCEPT ![clean(raw)].attempts = att,
                                           ![clean(raw)].verified = FALSE],
                   resp |-> Resp("verify", 400, ErrWrongOtp, "",
                                 <<IntToString(MaxAttempts - att)>>)]
             ELSE [store |-> [store EXCEPT ![clean(raw)].attempts = att,
                                           ![clean(raw)].verified = TRUE],
                   resp |-> Resp("verify", 200, "", "", <<>>)]

VerifyOutcome(store, t, raw, rawOtp) ==
    IF clean(raw) \notin DOMAIN store
    THEN [store |-> store, resp |-> Resp("verify", 400, ErrNoOtp, "", <<>>)]
    ELSE LET rec == store[clean(raw)]
             att == rec.attempts + 1
         IN  IF OtpExpired(rec, t)
             THEN [store |-> MapDelete(store, clean(raw)),
                   resp |-> Resp("verify", 400, ErrExpired, "", <<>>)]
             ELSE IF TooManyAttempts(att)
             THEN [store |-> MapDelete(store, clean(raw)),
                   resp |-> Resp("verify", 400, ErrTooMany, "", <<>>)]
             ELSE IF ~OtpMatches(rec, rawOtp)
             THEN [store |-> [store EXCEPT ![clean(raw)].attempts = att],
                   resp |-> Resp("verify", 400, ErrWrongOtp, "",
                                 <<IntToString(MaxAttempts - att)>>)]
             ELSE [store |-> [store EXCEPT ![clean(raw)].attempts = att,
                                           ![clean(raw)].verified = TRUE],
                   resp |-> Resp("verify", 200, "", "", <<>>)]

\* POST /api/otp/verify with body {phone: raw, otp: rawOtp}; maxCalls caps the
\* verify calls counted in otpHist
VerifyOtp(raw, rawOtp, maxCalls) ==
    LET o == VerifyOutcome(otpStore, now, raw, rawOtp)
    IN  /\ clean(raw) \in DOMAIN otpHist => otpHist[clean(raw)].calls < maxCalls
        /\ otpStore' = o.store
        /\ last' = o.resp
        /\ otpHist' = HistVerify(otpHist, clean(raw), Ok(o.resp))
        /\ UNCHANGED <<voters, votes, elections, sessions, now, nextUuid,
                       env, inflight>>

(***************************************************************************)
(* Duplicate detection (POST /api/voter/register)                           *)
(***************************************************************************)
NoVoter == [id |-> <<>>]

\* Array.prototype.find: the first of the indexes hits, those of the elements
\* that satisfy the test, 0 when there is none
FirstIndex(hits) ==
    IF hits = {} THEN 0 ELSE CHOOSE i \in hits : \A j \in hits : i <= j

\* voters.find(v=>v.phone===cPhone)
byPhone_None(vs, cPhone) == NoVoter

byPhone(vs, cPhone) ==
    LET T(i) == vs[i].phone = cPhone
        k == FirstIndex({i \in 1..Len(vs) : T(i)})
    IN  IF k = 0 THEN NoVoter ELSE vs[k]

\* voters.find(v=>v.name.toLowerCase()===cName.toLowerCase()&&v.dob===cDob)
byNd_CaseSensitive(vs, cName, cDob) ==
    LET T(i) == vs[i].name = cName /\ vs[i].dob = cDob
        k == FirstIndex({i \in 1..Len(vs) : T(i)})
    IN  IF k = 0 THEN NoVoter ELSE vs[k]

byNd_IgnoreDob(vs, cName, cDob) ==
    LET T(i) == toLowerCase(vs[i].name) = toLowerCase(cName)
        k == FirstIndex({i \in 1..Len(vs) : T(i)})
    IN  IF k = 0 THEN NoVoter ELSE vs[k]

byNd(vs, cName, cDob) ==
    LET T(i) == toLowerCase(vs[i].name) = toLowerCase(cName) /\ vs[i].dob = cDob
        k == FirstIndex({i \in 1..Len(vs) : T(i)})
    IN  IF k = 0 THEN NoVoter ELSE vs[k]

\* if(d<0.45)faceMatch=v
BelowThreshold_Inclusive(d) == d <= FaceThresholdSq

BelowThreshold(d) == d < FaceThresholdSq

\* let faceMatch=null,minD=999; for(const v of voters){...}: the loop from
\* voter i on, with the minD and faceMatch it has reached
\* the loop that keeps the first voter nearer than the threshold
RECURSIVE FaceScan_FirstBelow(_, _, _, _, _)
FaceScan_FirstBelow(vs, i, fd, minD, match) ==
    IF i > Len(vs) THEN match
    ELSE LET v == vs[i]
             d == euclidean(fd, v.faceDescriptor)
         IN  IF match = NoVoter /\ BelowThreshold(d)
             THEN FaceScan_FirstBelow(vs, i + 1, fd, d, v)
             ELSE FaceScan_FirstBelow(vs, i + 1, fd, minD, match)

RECURSIVE FaceScan(_, _, _, _, _)
FaceScan(vs, i, fd, minD, match) ==
    IF i > Len(vs) THEN match
    ELSE LET v == vs[i]
         IN  IF v.faceDescriptor = <<>> \/ Len(v.faceDescriptor) # FaceLen
             THEN FaceScan(vs, i + 1, fd, minD, match)
             ELSE LET d == euclidean(fd, v.faceDescriptor)
                  IN  IF d < minD
                      THEN FaceScan(vs, i + 1, fd, d,
                                    IF BelowThreshold(d) THEN v ELSE match)
                      ELSE FaceScan(vs, i + 1, fd, minD, match)

faceMatch(vs, fd) == FaceScan(vs, 1, fd, SentinelSq, NoVoter)

\* the three checks in the order of the handler: the kind and the voter of the
\* first collision
DuplicateCheck_FaceFirst(vs, cPhone, cName, cDob, fd) ==
    IF faceMatch(vs, fd) # NoVoter
    THEN [type |-> "face", voter |-> faceMatch(vs, fd)]
    ELSE IF byNd(vs, cName, cDob) # NoVoter
    THEN [type |-> "name_dob", voter |-> byNd(vs, cName, cDob)]
    ELSE IF byPhone(vs, cPhone) # NoVoter
    THEN [type |-> "phone", voter |-> byPhone(vs, cPhone)]
    ELSE [type |-> "", voter |-> NoVoter]

DuplicateCheck(vs, cPhone, cName, cDob, fd) ==
    IF byPhone(vs, cPhone) # NoVoter
    THEN [type |-> "phone", voter |-> byPhone(vs, cPhone)]
    ELSE IF byNd(vs, cName, cDob) # NoVoter
    THEN [type |-> "name_dob", voter |-> byNd(vs, cName, cDob)]
    ELSE IF faceMatch(vs, fd) # NoVoter
    THEN [type |-> "face", voter |-> faceMatch(vs, fd)]
    ELSE [type |-> "", voter |-> NoVoter]

(***************************************************************************)
(* Registration (POST /api/voter/register)                                 *)
(***************************************************************************)
ErrName == "Valid full name required."
ErrDob == "Date of birth required."
ErrFace == "Valid face data required."
ErrFaceCorrupt == "Corrupted face data."
ErrFaceFlat == "Face data is invalid."
ErrOtpRequired == "Phone OTP verification required."
ErrProof == "ID document verification required."
ErrDuplicate == "DUPLICATE_VOTER"

\* uuidv4(): the k-th identifier drawn
Uuid(k) == <<"u", "-">> \o NatToString(k)

HexDigits == Digits \o <<"a", "b", "c", "d", "e", "f">>

RECURSIVE HexString(_, _)
HexString(n, width) ==
    IF width = 0 THEN <<>>
    ELSE HexString(n \div 16, width - 1) \o <<HexDigits[(n % 16) + 1]>>

\* crypto.randomBytes(3): the three bytes as a number
RandomBytes3 == 0..(256 * 256 * 256 - 1)

\* 'VTR-'+crypto.randomBytes(3).toString('hex').toUpperCase()
MintVoterId(r) == <<"V", "T", "R", "-">> \o toUpperCase(HexString(r, 6))

\* What the handler computes from the body alone.  A body is [name, dob,
\* phone, address, face, proofType, proofVerified]; face is [isArray, vals,
\* bad]: whether faceDescriptor is an array, its numbers, and whether some
\* element is not a finite number.
ParseBody(req) ==
    [cName |-> sanitizeName(req.name),
     cDob |-> sanitize(req.dob),
     cPhone |-> cleanPhone(req.phone),
     cAddr |-> sanitize(req.address),
     proofType |-> sanitize(req.proofType),
     faceShape |-> req.face.isArray /\ Len(req.face.vals) = FaceLen,
     faceFinite |-> ~req.face.bad,
     faceFlat |-> req.face.isArray /\ Len(req.face.vals) = FaceLen
                     /\ Degenerate(req.face.vals)]

\* ParseBody, computed once for each body of the scenarios
BodyTable == Tabulated([req \in AllRegReqs |-> ParseBody(req)])

\* const otpRec=otpStore.get(cPhone); if(!otpRec||!otpRec.verified)
OtpGate_AnyRecord(store, cPhone) == cPhone \in DOMAIN store

OtpGate(store, cPhone) == cPhone \in DOMAIN store /\ store[cPhone].verified

\* The gates of the handler in order: the error response of the first gate
\* that fails, or NoRequest when all pass.
RegisterGates_ProofFirst(vs, store, req) ==
    LET b == BodyTable[req]
        dup == DuplicateCheck(vs, b.cPhone, b.cName, b.cDob, req.face.vals)
        E(status, error) == Resp("register", status, error, "", <<>>)
    IN  IF b.cName = <<>> \/ Len(b.cName) < 2 THEN E(400, ErrName)
        ELSE IF b.cDob = <<>> THEN E(400, ErrDob)
        ELSE IF Len(b.cPhone) < PhoneLen THEN E(400, ErrPhone)
        ELSE IF ~b.faceShape THEN E(400, ErrFace)
        ELSE IF ~b.faceFinite THEN E(400, ErrFaceCorrupt)
        ELSE IF b.faceFlat THEN E(400, ErrFaceFlat)
        ELSE IF ~req.proofVerified THEN E(400, ErrProof)
        ELSE IF ~OtpGate(store, b.cPhone) THEN E(400, ErrOtpRequired)
        ELSE IF dup.type # ""
        THEN Resp("register", 409, ErrDuplicate, dup.type,
                  <<dup.voter.voterId, dup.voter.name>>)
        ELSE NoRequest

RegisterGates(vs, store, req) ==
    LET b == BodyTable[req]
        dup == DuplicateCheck(vs, b.cPhone, b.cName, b.cDob, req.face.vals)
        E(status, error) == Resp("register", status, error, "", <<>>)
    IN  IF b.cName = <<>> \/ Len(b.cName) < 2 THEN E(400, ErrName)
        ELSE IF b.cDob = <<>> THEN E(400, ErrDob)
        ELSE IF Len(b.cPhone) < PhoneLen THEN E(400, ErrPhone)
        ELSE IF ~b.faceShape THEN E(400, ErrFace)
        ELSE IF ~b.faceFinite THEN E(400, ErrFaceCorrupt)
        ELSE IF b.faceFlat THEN E(400, ErrFaceFlat)
        ELSE IF ~OtpGate(store, b.cPhone) THEN E(400, ErrOtpRequired)
        ELSE IF ~req.proofVerified THEN E(400, ErrProof)
        ELSE IF dup.type # ""
        THEN Resp("register", 409, ErrDuplicate, dup.type,
                  <<dup.voter.voterId, dup.voter.name>>)
        ELSE NoRequest

\* voters.push({id:uuidv4(),voterId,name:cName,...,status:'active'}); the
\* registeredAt stamp, which the server never reads, is left out
NewVoter(req, id, voterId) ==
    LET b == BodyTable[req]
    IN  [id |-> id, voterId |-> voterId, name |-> b.cName, dob |-> b.cDob,
         phone |-> b.cPhone, address |-> b.cAddr, proofType |-> b.proofType,
         faceDescriptor |-> req.face.vals, status |-> "active"]

\* otpStore.delete(cPhone) after writeJSON(VOTERS_FILE,voters)
ConsumeOtp_Kept(store, cPhone) == store

ConsumeOtp(store, cPhone) == MapDelete(store, cPhone)

\* POST /api/voter/register with body req; r is the draw of
\* crypto.randomBytes(3); maxUuids caps the uuidv4() values drawn
RegisterVoter_ConsumesEarly(req, r, maxUuids) ==
    LET gate == RegisterGates(voters, otpStore, req)
        b == BodyTable[req]
        voterId == MintVoterId(r)
    IN  /\ r \in RandomBytes3
        /\ IF gate # NoRequest
           THEN /\ last' = gate
                /\ otpStore' = IF gate.error = ErrDuplicate
                                THEN ConsumeOtp(otpStore, b.cPhone)
                                ELSE otpStore
                /\ UNCHANGED <<voters, nextUuid, otpHist>>
           ELSE /\ nextUuid < maxUuids
                /\ voters' = Append(voters, NewVoter(req, Uuid(nextUuid), voterId))
                /\ nextUuid' = nextUuid + 1
                /\ otpStore' = ConsumeOtp(otpStore, b.cPhone)
                /\ otpHist' = HistRegister(otpHist, b.cPhone)
                /\ last' = Resp("register", 200, "", "", <<voterId, b.cName>>)
        /\ UNCHANGED <<votes, elections, sessions, now, env, inflight>>

RegisterVoter(req, r, maxUuids) ==
    LET gate == RegisterGates(voters, otpStore, req)
        b == BodyTable[req]
        voterId == MintVoterId(r)
    IN  /\ r \in RandomBytes3
        /\ IF gate # NoRequest
           THEN /\ last' = gate
                /\ UNCHANGED <<voters, otpStore, nextUuid, otpHist>>
           ELSE /\ nextUuid < maxUuids
                /\ voters' = Append(voters, NewVoter(req, Uuid(nextUuid), voterId))
                /\ nextUuid' = nextUuid + 1
                /\ otpStore' = ConsumeOtp(otpStore, b.cPhone)
                /\ otpHist' = HistRegister(otpHist, b.cPhone)
                /\ last' = Resp("register", 200, "", "", <<voterId, b.cName>>)
        /\ UNCHANGED <<votes, elections, sessions, now, env, inflight>>

\* DELETE /api/admin/voters/:id
AdminDeleteVoter(id) ==
    /\ voters' = SelectSeq(voters, LAMBDA v : v.id # id)
    /\ last' = Resp("deleteVoter", 200, "", "", <<>>)
    /\ UNCHANGED <<otpStore, votes, elections, sessions, now, nextUuid,
                   otpHist, env, inflight>>

(***************************************************************************)
(* Voter sessions                                                          *)
(***************************************************************************)
ErrVoterNotFound == "Voter not found."

\* POST /api/voter/session with body {voterId: rawId}:
\* req.session.voter={id:v.id,voterId:v.voterId,name:v.name,dob:v.dob}
VoterSession(rawId) ==
    LET T(i) == voters[i].voterId = sanitizeId(rawId)
        k == FirstIndex({i \in 1..Len(voters) : T(i)})
    IN  /\ IF k = 0
           THEN /\ last' = Resp("session", 404, ErrVoterNotFound, "", <<>>)
                /\ UNCHANGED sessions
           ELSE /\ sessions' = sessions \cup
                        {[id |-> voters[k].id, voterId |-> voters[k].voterId,
                          name |-> voters[k].name, dob |-> voters[k].dob]}
                /\ last' = Resp("session", 200, "", "", <<>>)
        /\ UNCHANGED <<otpStore, voters, votes, elections, now, nextUuid,
                       otpHist, env, inflight>>

\* POST /api/voter/logout of the client that holds session s
VoterLogout(s) ==
    /\ s \in sessions
    /\ sessions' = sessions \ {s}
    /\ last' = Resp("logout", 200, "", "", <<>>)
    /\ UNCHANGED <<otpStore, voters, votes, elections, now, nextUuid,
                   otpHist, env, inflight>>

(***************************************************************************)
(* Ballot casting (POST /api/voter/vote)                                   *)
(***************************************************************************)
ErrElectionNotFound == "Election not found."
ErrNotActive == "Election not active."
ErrNotOpen == "Election not currently open."
ErrNoDob == "DOB not on record."
ErrAge == "AGE_RESTRICTED"
ErrAlreadyVoted == "Already voted in this election."
ErrCandidate == "Invalid candidate."

NoElection == [id |-> <<>>]

\* elections.find(e=>e.id===elId)
FindElection(els, elId) ==
    LET T(i) == els[i].id = elId
        k == FirstIndex({i \in 1..Len(els) : T(i)})
    IN  IF k = 0 THEN NoElection ELSE els[k]

\* voters.find(v=>v.id===vid)
FindVoter(vs, vid) ==
    LET T(i) == vs[i].id = vid
        k == FirstIndex({i \in 1..Len(vs) : T(i)})
    IN  IF k = 0 THEN NoVoter ELSE vs[k]

\* the lookup that settles for the election's first candidate
FindCandidate_First(el, cId) == el.candidates[1]

\* el.candidates.find(c=>c.id===cId)
FindCandidate(el, cId) ==
    LET T(i) == el.candidates[i].id = cId
        k == FirstIndex({i \in 1..Len(el.candidates) : T(i)})
    IN  IF k = 0 THEN [id |-> <<>>] ELSE el.candidates[k]

\* votes.find(v=>v.electionId===elId&&v.voterId===vid)
hasVoted_OtherElection(vts, elId, vid) ==
    \E i \in 1..Len(vts) : vts[i].electionId # elId /\ vts[i].voterId = vid

hasVoted(vts, elId, vid) ==
    \E i \in 1..Len(vts) : vts[i].electionId = elId /\ vts[i].voterId = vid

\* now<new Date(el.startDate)||now>new Date(el.endDate)
OutsideWindow_Exclusive(el, t) == t <= el.startDate \/ t >= el.endDate

OutsideWindow(el, t) == t < el.startDate \/ t > el.endDate

\* The age gate: the error response, or NoRequest when the gate is passed.  An
\* Invalid Date gives NaN for the age, and no comparison with NaN is true.
AgeGate_ZeroIsBound(el, vs, vid, t) ==
    LET minA == el.minAge
        maxA == el.maxAge
        vr == FindVoter(vs, vid)
    IN  IF ~(minA > 0 \/ maxA > 0) THEN NoRequest
        ELSE IF vr = NoVoter \/ vr.dob = <<>>
        THEN Resp("vote", 400, ErrNoDob, "", <<>>)
        ELSE LET dob == LocalDob(ParseDate(vr.dob))
                 age == AgeAt(dob, LocalDateOf(t))
             IN  IF ~dob.ok THEN NoRequest
                 ELSE IF minA > 0 /\ age < minA
                      THEN Resp("vote", 403, ErrAge, "", <<IntToString(age)>>)
                 ELSE IF age > maxA
                      THEN Resp("vote", 403, ErrAge, "", <<IntToString(age)>>)
                 ELSE NoRequest

AgeGate(el, vs, vid, t) ==
    LET minA == el.minAge
        maxA == el.maxAge
        vr == FindVoter(vs, vid)
    IN  IF ~(minA > 0 \/ maxA > 0) THEN NoRequest
        ELSE IF vr = NoVoter \/ vr.dob = <<>>
        THEN Resp("vote", 400, ErrNoDob, "", <<>>)
        ELSE LET dob == LocalDob(ParseDate(vr.dob))
                 age == AgeAt(dob, LocalDateOf(t))
             IN  IF ~dob.ok THEN NoRequest
                 ELSE IF minA > 0 /\ age < minA
                      THEN Resp("vote", 403, ErrAge, "", <<IntToString(age)>>)
                 ELSE IF maxA > 0 /\ age > maxA
                      THEN Resp("vote", 403, ErrAge, "", <<IntToString(age)>>)
                 ELSE NoRequest

\* The gates of the handler in order: the error response of the first gate
\* that fails, or NoRequest when all pass.  s is req.session.voter.
VoteGates_CandidateFirst(els, vts, vs, t, s, elId, cId) ==
    LET el == FindElection(els, elId)
        E(status, error) == Resp("vote", status, error, "", <<>>)
    IN  IF el = NoElection THEN E(404, ErrElectionNotFound)
        ELSE IF el.status # "active" THEN E(400, ErrNotActive)
        ELSE IF OutsideWindow(el, t) THEN E(400, ErrNotOpen)
        ELSE IF AgeGate(el, vs, s.id, t) # NoRequest THEN AgeGate(el, vs, s.id, t)
        ELSE IF FindCandidate(el, cId) = [id |-> <<>>] THEN E(400, ErrCandidate)
        ELSE IF hasVoted(vts, elId, s.id) THEN E(400, ErrAlreadyVoted)
        ELSE NoRequest

VoteGates_WindowFirst(els, vts, vs, t, s, elId, cId) ==
    LET el == FindElection(els, elId)
        E(status, error) == Resp("vote", status, error, "", <<>>)
    IN  IF el = NoElection THEN E(404, ErrElectionNotFound)
        ELSE IF OutsideWindow(el, t) THEN E(400, ErrNotOpen)
        ELSE IF el.status # "active" THEN E(400, ErrNotActive)
        ELSE IF AgeGate(el, vs, s.id, t) # NoRequest THEN AgeGate(el, vs, s.id, t)
        ELSE IF hasVoted(vts, elId, s.id) THEN E(400, ErrAlreadyVoted)
        ELSE IF FindCandidate(el, cId) = [id |-> <<>>] THEN E(400, ErrCandidate)
        ELSE NoRequest

VoteGates(els, vts, vs, t, s, elId, cId) ==
    LET el == FindElection(els, elId)
        E(status, error) == Resp("vote", status, error, "", <<>>)
    IN  IF el = NoElection THEN E(404, ErrElectionNotFound)
        ELSE IF el.status # "active" THEN E(400, ErrNotActive)
        ELSE IF OutsideWindow(el, t) THEN E(400, ErrNotOpen)
        ELSE IF AgeGate(el, vs, s.id, t) # NoRequest THEN AgeGate(el, vs, s.id, t)
        ELSE IF hasVoted(vts, elId, s.id) THEN E(400, ErrAlreadyVoted)
        ELSE IF FindCandidate(el, cId) = [id |-> <<>>] THEN E(400, ErrCandidate)
        ELSE NoRequest

\* votes.push({id:uuidv4(),electionId:elId,voterId:vid,voterName,candidateId:cId,
\* votedAt}); the id and the votedAt stamp, which no handler modelled here
\* reads, are left out
NewVote(s, elId, cId) ==
    [electionId |-> elId, voterId |-> s.id, voterName |-> s.name,
     candidateId |-> cId]

\* id:'election-001'
ElectionOneId == <<"e", "l", "e", "c", "t", "i", "o", "n", "-", "0", "0", "1">>

\* the ids that requests carry in the scenarios, and sanitize() computed once
\* for each of them
ScenarioIds ==
    {ElectionOneId, <<"c", "1">>, <<"z", "z">>} \cup {Uuid(k) : k \in 0..9}

IdTable == Tabulated([id \in ScenarioIds |-> sanitize(id)])

\* sanitize(req.body.electionId||''), sanitize(req.body.candidateId||'')
cleanId(raw) == IF raw \in DOMAIN IdTable THEN IdTable[raw] ELSE sanitize(raw)

\* POST /api/voter/vote by the client that holds session s (needVoter), with
\* body {electionId: rawEl, candidateId: rawCand}
CastVote(s, rawEl, rawCand) ==
    LET elId == cleanId(rawEl)
        cId == cleanId(rawCand)
        gate == VoteGates(elections, votes, voters, now, s, elId, cId)
    IN  /\ s \in sessions
        /\ IF gate # NoRequest
           THEN /\ last' = gate
                /\ UNCHANGED votes
           ELSE /\ votes' = Append(votes, NewVote(s, elId, cId))
                /\ last' = Resp("vote", 200, "", "",
                                <<FindCandidate(FindElection(elections, elId), cId).name>>)
        /\ UNCHANGED <<otpStore, voters, elections, sessions, now, nextUuid,
                       otpHist, env, inflight>>

(***************************************************************************)
(* Admin operations on elections (needAdmin: an admin is logged in)        *)
(***************************************************************************)
ErrElectionBody == "Title and at least 2 candidates required."
ErrAgeRange == "Min age must be less than max age."
ErrNotFound == "Not found."
ErrStatus == "Invalid status."

Max(a, b) == IF a >= b THEN a ELSE b

\* POST /api/admin/elections with body [title, startDate, endDate, candidates,
\* minAge, maxAge]; candidates is the sequence of the candidates' names
AdminCreateElection(body, maxUuids) ==
    LET cTitle == sanitize(body.title)
        n == Len(body.candidates)
        mn == Max(0, body.minAge)
        mx == Max(0, body.maxAge)
    IN  /\ IF cTitle = <<>> \/ n < 2
           THEN /\ last' = Resp("createElection", 400, ErrElectionBody, "", <<>>)
                /\ UNCHANGED <<elections, nextUuid>>
           ELSE IF mn > 0 /\ mx > 0 /\ mn >= mx
           THEN /\ last' = Resp("createElection", 400, ErrAgeRange, "", <<>>)
                /\ UNCHANGED <<elections, nextUuid>>
           ELSE /\ nextUuid + n < maxUuids
                /\ elections' = Append(elections,
                      [id |-> Uuid(nextUuid), status |-> "active",
                       startDate |-> body.startDate, endDate |-> body.endDate,
                       minAge |-> mn, maxAge |-> mx,
                       candidates |->
                          [i \in 1..n |->
                              [id |-> SliceTo(Uuid(nextUuid + i), 8),
                               name |-> sanitizeName(body.candidates[i])]]])
                /\ nextUuid' = nextUuid + n + 1
                /\ last' = Resp("createElection", 200, "", "", <<>>)
        /\ UNCHANGED <<otpStore, voters, votes, sessions, now, otpHist, env,
                       inflight>>

\* PUT /api/admin/elections/:id/status with body {status}
AdminSetStatus(id, status) ==
    LET T(i) == elections[i].id = id
        idx == FirstIndex({i \in 1..Len(elections) : T(i)})
    IN  /\ IF idx = 0
           THEN /\ last' = Resp("setStatus", 404, ErrNotFound, "", <<>>)
                /\ UNCHANGED elections
           ELSE IF status \notin {"active", "closed"}
           THEN /\ last' = Resp("setStatus", 400, ErrStatus, "", <<>>)
                /\ UNCHANGED elections
           ELSE /\ elections' = [elections EXCEPT ![idx].status = status]
                /\ last' = Resp("setStatus", 200, "", "", <<>>)
        /\ UNCHANGED <<otpStore, voters, votes, sessions, now, nextUuid,
                       otpHist, env, inflight>>

\* DELETE /api/admin/elections/:id
AdminDeleteElection_Cascade(id) ==
    /\ elections' = SelectSeq(elections, LAMBDA e : e.id # id)
    /\ votes' = SelectSeq(votes, LAMBDA v : v.electionId # id)
    /\ last' = Resp("deleteElection", 200, "", "", <<>>)
    /\ UNCHANGED <<otpStore, voters, sessions, now, nextUuid, otpHist,
                   env, inflight>>

AdminDeleteElection(id) ==
    /\ elections' = SelectSeq(elections, LAMBDA e : e.id # id)
    /\ last' = Resp("deleteElection", 200, "", "", <<>>)
    /\ UNCHANGED <<otpStore, voters, votes, sessions, now, nextUuid, otpHist,
                   env, inflight>>

(***************************************************************************)
(* Initial state (initData, and the empty otpStore)                        *)
(***************************************************************************)
CharsAlice == <<"A", "l", "i", "c", "e", " ", "J", "o", "h", "n", "s", "o", "n">>

CharsBob == <<"B", "o", "b", " ", "W", "i", "l", "l", "i", "a", "m", "s">>

CharsCarol == <<"C", "a", "r", "o", "l", " ", "S", "m", "i", "t", "h">>

CharsDavid == <<"D", "a", "v", "i", "d", " ", "B", "r", "o", "w", "n">>

\* the election written by initData when elections.json does not exist
ElectionOne ==
    [id |-> ElectionOneId, status |-> "active",
     startDate |-> 0, endDate |-> 7 * DayMs, minAge |-> 0, maxAge |-> 0,
     candidates |-> << [id |-> <<"c", "1">>, name |-> CharsAlice],
                       [id |-> <<"c", "2">>, name |-> CharsBob],
                       [id |-> <<"c", "3">>, name |-> CharsCarol],
                       [id |-> <<"c", "4">>, name |-> CharsDavid] >>]

\* the host of the scenarios that do not vary it: development mode, UTC
DefaultEnv == [isProd |-> FALSE, tz |-> 0]

\* the state after start-up on the host e
InitEnv(e) ==
    /\ env = e
    /\ otpStore = EmptyMap
    /\ voters = <<>>
    /\ votes = <<>>
    /\ elections = <<ElectionOne>>
    /\ sessions = {}
    /\ now = 0
    /\ nextUuid = 0
    /\ last = NoRequest
    /\ otpHist = EmptyMap
    /\ inflight = <<>>

Init == InitEnv(DefaultEnv)

(***************************************************************************)
(* The OTP ledger with the registration that consumes it                   *)
(***************************************************************************)
OtpPhones == {PhoneATyped, PhoneShort}

\* the clock of the OTP scenario runs for this many minutes
OtpMinutes == 6

\* the verify calls counted per phone in otpHist
MaxVerifyCalls == 7

\* the uuidv4() values drawn in the OTP and duplicate-detection scenarios
MaxUuids == 2

NextOtp ==
    \/ \E raw \in OtpPhones, n \in OtpDraws : SendOtp(raw, n)
    \/ \E raw \in OtpPhones, code \in TypedCodes : VerifyOtp(raw, code, MaxVerifyCalls)
    \/ \E req \in OtpRegReqs : RegisterVoter(req, 0, MaxUuids)
    \/ \E i \in 1..Len(voters) : AdminDeleteVoter(voters[i].id)
    \/ Tick(MinuteMs, OtpMinutes * MinuteMs)

SpecOtp == Init /\ [][NextOtp]_vars

(***************************************************************************)
(* Properties of the OTP ledger (under SpecOtp)                            *)
(***************************************************************************)
ValidPhone(raw) == Len(clean(raw)) = PhoneLen

\* C4: every successful registerVoter for phone P is preceded by a successful
\* verifyOtp(P) made after the most recent sendOtp(P) and after any earlier
\* successful registration for P (otpHist[P].verified records exactly that).
C4_RegistrationNeedsFreshVerify ==
    [][\A req \in OtpRegReqs :
          (last'.op = "register" /\ Ok(last') /\ RegisterVoter(req, 0, MaxUuids))
              => /\ clean(req.phone) \in DOMAIN otpHist
                 /\ otpHist[clean(req.phone)].verified]_vars

\* a second registration for the same phone has succeeded
C4_Witness ==
    /\ last.op = "register" /\ Ok(last)
    /\ nextUuid = 2
    /\ PhoneA \in DOMAIN otpHist
    /\ otpHist[PhoneA].consumed

\* the conditions of C5 on a verify call for phone P with the code typed,
\* taken before the call: sent is what the typed code is compared as
VerifyConditions(P, sent) ==
    /\ P \in DOMAIN otpHist
    /\ sent = otpHist[P].code
    /\ now <= otpHist[P].sentAt + OtpTtl
    /\ otpHist[P].calls + 1 <= MaxAttempts

\* C5 as stated: verifyOtp(P, code) succeeds iff code equals the code of the
\* most recent sendOtp(P), the call is no later than 5 minutes after that
\* send and at most 5 verify calls were made since that send.
C5_Original ==
    [][\A raw \in OtpPhones, code \in TypedCodes :
          (last'.op = "verify" /\ ValidPhone(raw) /\ VerifyOtp(raw, code, MaxVerifyCalls))
              => (Ok(last') <=> VerifyConditions(clean(raw), code))]_vars

\* C5 amended: verifyOtp(P, code) succeeds iff the code, sanitised and trimmed,
\* equals the code of the most recent sendOtp(P), no registration for P has
\* succeeded since that send, the call is no later than 5 minutes after it and
\* at most 5 verify calls were made since it.
C5_VerifyIff ==
    [][\A raw \in OtpPhones, code \in TypedCodes :
          (last'.op = "verify" /\ ValidPhone(raw) /\ VerifyOtp(raw, code, MaxVerifyCalls))
              => (Ok(last') <=>
                    /\ VerifyConditions(clean(raw), trim(sanitize(code)))
                    /\ ~otpHist[clean(raw)].consumed)]_vars

\* the fifth verify call succeeds at the last instant of the five minutes
C5_Witness ==
    /\ last.op = "verify" /\ Ok(last)
    /\ PhoneA \in DOMAIN otpHist
    /\ otpHist[PhoneA].calls = MaxAttempts
    /\ now = otpHist[PhoneA].sentAt + OtpTtl

\* five verify calls, all wrong, were made on phone P since its last send
FiveWrong(P) ==
    /\ P \in DOMAIN otpHist
    /\ otpHist[P].calls = MaxAttempts
    /\ ~otpHist[P].verified
    /\ ~otpHist[P].consumed

RegistersPhone(P) ==
    /\ last'.op = "register"
    /\ Ok(last')
    /\ voters'[Len(voters')].phone = P
    /\ P \notin DOMAIN otpStore'

\* the step is a successful send to phone P, which replaces its record
SendsTo(P) ==
    /\ last'.op = "send"
    /\ Ok(last')
    /\ P \in DOMAIN otpStore'
    /\ otpStore'[P] = NewOtpRecord(otpStore'[P].otp, now)

\* the step is a verify call for P counted as attempt 6 or later, which
\* deletes the record
LocksOut(P) ==
    /\ last'.op = "verify"
    /\ last'.error = ErrTooMany
    /\ otpStore[P].attempts >= MaxAttempts
    /\ P \notin DOMAIN otpStore'

\* the step is a verify call for P after the record's expiry, which deletes it
ExpiresAtVerify(P) ==
    /\ last'.op = "verify"
    /\ last'.error = ErrExpired
    /\ now > otpStore[P].expiresAt
    /\ P \notin DOMAIN otpStore'

\* P has a verified record after the step
StaysVerified(P) == P \in DOMAIN otpStore' /\ otpStore'[P].verified

\* C19 as stated: a verified record that has not expired stays in the ledger
\* with verified=true through every step but a successful registration for
\* its phone
C19_Original ==
    [][\A P \in DOMAIN otpStore :
          (otpStore[P].verified /\ now <= otpStore[P].expiresAt)
              => StaysVerified(P) \/ RegistersPhone(P)]_vars

\* C19: a verified record stays in the ledger with verified=true through
\* every step but a successful registration for its phone, a successful send
\* to its phone, a verify call for its phone counted as attempt 6 or later,
\* and a verify call for its phone after its expiry; a verify call within the
\* first five, with a right or a wrong code, leaves it verified
C19_VerifiedUntil ==
    [][\A P \in DOMAIN otpStore :
          otpStore[P].verified
              => \/ StaysVerified(P)
                 \/ RegistersPhone(P)
                 \/ SendsTo(P)
                 \/ LocksOut(P)
                 \/ ExpiresAtVerify(P)]_vars

\* a verify call with a wrong code has been answered WrongOtp for a phone
\* whose record was verified and still is
C19_Witness ==
    /\ last.op = "verify"
    /\ last.error = ErrWrongOtp
    /\ \E P \in DOMAIN otpStore :
          otpStore[P].verified /\ otpStore[P].attempts > 1

\* the record that a successful send to P leaves: the code sent, five minutes
\* to go, not verified, no attempt counted
Fresh(store, P, t) ==
    /\ P \in DOMAIN store
    /\ store[P] = NewOtpRecord(store[P].otp, t)

\* C21: whatever the ledger holds for P, a send to P succeeds and returns the
\* code it stored, and the first verify call for P after a send, made with
\* the code sent and no later than five minutes after the send, succeeds
C21_SendThenVerifySucceeds ==
    [][/\ (last'.op = "send" /\ Ok(last'))
             => \E P \in DOMAIN otpStore' :
                    /\ Fresh(otpStore', P, now)
                    /\ otpHist'[P] = NewHist(otpStore'[P].otp, now)
                    /\ last'.out = <<otpStore'[P].otp>>
                    /\ \A Q \in DOMAIN otpStore' \ {P} :
                           Q \in DOMAIN otpStore /\ otpStore'[Q] = otpStore[Q]
       /\ last'.op = "verify" =>
             \A raw \in OtpPhones, code \in TypedCodes :
                 LET P == clean(raw)
                 IN  (/\ P \in DOMAIN otpHist
                      /\ otpHist[P].calls = 0
                      /\ now <= otpHist[P].sentAt + OtpTtl
                      /\ code = otpHist[P].code
                      /\ VerifyOtp(raw, code, MaxVerifyCalls))
                         => Ok(last') /\ StaysVerified(P)]_vars

\* after a verify call was rejected for too many attempts, the next request
\* sent a new code and the first verify call with it has succeeded
C21_Witness ==
    /\ last.op = "verify"
    /\ Ok(last)
    /\ \E P \in DOMAIN otpHist :
          /\ otpHist[P].afterLockout
          /\ otpHist[P].calls = 1
          /\ Fresh([otpStore EXCEPT ![P].attempts = 0, ![P].verified = FALSE],
                   P, otpHist[P].sentAt)

\* C24: in every state between two requests every record of the ledger has an
\* attempts count from 0 to 5, and a verify call on a record whose count is
\* already 5 leaves no record for the phone
C24_AttemptsBounded ==
    /\ [](\A P \in DOMAIN otpStore : otpStore[P].attempts \in 0..MaxAttempts)
    /\ [][\A raw \in OtpPhones, code \in TypedCodes :
             (/\ last'.op = "verify"
              /\ clean(raw) \in DOMAIN otpStore
              /\ otpStore[clean(raw)].attempts = MaxAttempts
              /\ VerifyOtp(raw, code, MaxVerifyCalls))
                 => /\ clean(raw) \notin DOMAIN otpStore'
                    /\ ~Ok(last')]_vars

\* the sixth call on a verified, unexpired record was rejected for too many
\* attempts and the record is gone
C24_Witness ==
    /\ last.op = "verify" /\ last.error = ErrTooMany
    /\ \E P \in DOMAIN otpHist \ DOMAIN otpStore :
          /\ otpHist[P].calls = MaxAttempts + 1
          /\ otpHist[P].verified

\* six-digit numeric strings: with leading zeros, the least and a middle value
\* of the draw, the greatest six-digit string
SixDigitSamples ==
    {WrongCode, <<"0", "9", "9", "9", "9", "9">>, NatToString(100000),
     NatToString(654321), NatToString(999999)}

\* the request sendOtp(raw) can be answered with the code c
CanSend(raw, c) ==
    ENABLED (\E n \in OtpCandidates : SendOtp(raw, n) /\ last'.out = <<c>>)

\* C25 as stated: the code produced by sendOtp can be any six-digit numeric
\* string from 000000 to 999999, those with leading zeros included
C25_Original == \A c \in SixDigitSamples : CanSend(PhoneATyped, c)

\* the codes of SixDigitSamples that a send can produce
ProducibleSamples == {c \in SixDigitSamples : CanSend(PhoneATyped, c)}

\* C26 as stated: a registration succeeds only if the record of its phone is
\* unexpired at the time of the registration
C26_Original ==
    [][\A req \in OtpRegReqs :
          (last'.op = "register" /\ Ok(last') /\ RegisterVoter(req, 0, MaxUuids))
              => /\ clean(req.phone) \in DOMAIN otpStore
                 /\ ~OtpExpired(otpStore[clean(req.phone)], now)]_vars

\* the step leaves a verified record for P where there was none or an
\* unverified one
BecomesVerified(P) ==
    /\ StaysVerified(P)
    /\ ~(P \in DOMAIN otpStore /\ otpStore[P].verified)

\* the step is a verify call for P on a record that the call keeps, with its
\* code
VerifiesRecord(P) ==
    /\ last'.op = "verify"
    /\ P \in DOMAIN otpStore /\ P \in DOMAIN otpStore'
    /\ otpStore'[P].otp = otpStore[P].otp
    /\ \E raw \in OtpPhones, code \in TypedCodes :
          clean(raw) = P /\ VerifyOtp(raw, code, MaxVerifyCalls)

\* a verify call with a wrong code, answered WrongOtp, leaves a verified
\* record verified
WrongKeepsVerified ==
    \A P \in DOMAIN otpStore :
        (/\ otpStore[P].verified
         /\ last'.op = "verify" /\ last'.error = ErrWrongOtp
         /\ \E raw \in OtpPhones, code \in TypedCodes :
               clean(raw) = P /\ VerifyOtp(raw, code, MaxVerifyCalls))
            => StaysVerified(P)

\* C28 as stated: a record becomes verified only by a verify call on that
\* record that supplied exactly the record's code, and a later verify call
\* with a wrong code does not set verified back to false
C28_Original ==
    [][/\ \A P \in DOMAIN otpStore' :
             BecomesVerified(P)
                 => /\ VerifiesRecord(P)
                    /\ \A raw \in OtpPhones, code \in TypedCodes :
                          (clean(raw) = P /\ VerifyOtp(raw, code, MaxVerifyCalls))
                              => code = otpStore[P].otp
       /\ WrongKeepsVerified]_vars

\* C28 amended: a record becomes verified only by a verify call on that record
\* whose code, once sanitised and trimmed, equals the record's code, and a
\* later verify call with a wrong code does not set verified back to false
C28_VerifiedByMatchingCode ==
    [][/\ \A P \in DOMAIN otpStore' :
             BecomesVerified(P)
                 => /\ VerifiesRecord(P)
                    /\ \A raw \in OtpPhones, code \in TypedCodes :
                          (clean(raw) = P /\ VerifyOtp(raw, code, MaxVerifyCalls))
                              => trim(sanitize(code)) = otpStore[P].otp
       /\ WrongKeepsVerified]_vars

\* a record verified by one of its first three verify calls has been left
\* verified by a fourth call with a wrong code
C28_Witness ==
    /\ last.op = "verify" /\ last.error = ErrWrongOtp
    /\ \E P \in DOMAIN otpStore :
          /\ otpStore[P].verified
          /\ otpStore[P].attempts = 4
          /\ otpHist[P].calls = 4

(***************************************************************************)
(* Registration with duplicate detection                                   *)
(***************************************************************************)
DupPhones == {PhoneA, PhoneB}

\* the code sent and typed in the scenarios that are not about the OTP ledger
TheCode == 100000

\* the verify calls per send in those scenarios
FewVerifyCalls == 1

NextReg ==
    \/ \E raw \in DupPhones : SendOtp(raw, TheCode)
    \/ \E raw \in DupPhones : VerifyOtp(raw, NatToString(TheCode), FewVerifyCalls)
    \/ \E req \in DupRegReqs : RegisterVoter(req, 0, MaxUuids)
    \/ \E i \in 1..Len(voters) : AdminDeleteVoter(voters[i].id)

SpecReg == Init /\ [][NextReg]_vars

\* the body passes the validation of the handler
Validated(req) ==
    LET b == BodyTable[req]
    IN  /\ Len(b.cName) >= 2
        /\ b.cDob # <<>>
        /\ Len(b.cPhone) = PhoneLen
        /\ b.faceShape /\ b.faceFinite /\ ~b.faceFlat

\* the request passes every gate that precedes the duplicate checks
ReachesDuplicateCheck(req) ==
    /\ Validated(req)
    /\ clean(req.phone) \in DOMAIN otpStore
    /\ otpStore[clean(req.phone)].verified
    /\ req.proofVerified

\* the stored voters the body collides with, by each key
PhoneCollisions(req) ==
    {i \in 1..Len(voters) : voters[i].phone = clean(req.phone)}

NameDobCollisions(req) ==
    {i \in 1..Len(voters) :
        /\ toLowerCase(voters[i].name) = toLowerCase(BodyTable[req].cName)
        /\ voters[i].dob = BodyTable[req].cDob}

FaceCollisions(req) ==
    {i \in 1..Len(voters) :
        euclidean(req.face.vals, voters[i].faceDescriptor) < FaceThresholdSq}

\* the response is the 409 DUPLICATE_VOTER of the given kind
Duplicate(r, kind) ==
    r.status = 409 /\ r.error = ErrDuplicate /\ r.type = kind

\* the step is the registration request req
Registers(req) == last'.op = "register" /\ RegisterVoter(req, 0, MaxUuids)

\* C3: in every reachable state no two stored voters have the same phone, the
\* same (name ignoring case, DOB) pair, or face descriptors closer than 0.45
C3_VotersPairwiseDistinct ==
    \A i, j \in 1..Len(voters) :
        i < j =>
            /\ voters[i].phone # voters[j].phone
            /\ ~(/\ toLowerCase(voters[i].name) = toLowerCase(voters[j].name)
                 /\ voters[i].dob = voters[j].dob)
            /\ euclidean(voters[i].faceDescriptor, voters[j].faceDescriptor)
                   >= FaceThresholdSq

\* two voters are stored whose names are equal and whose DOBs differ
C3_Witness ==
    /\ Len(voters) = 2
    /\ voters[1].name = voters[2].name
    /\ voters[1].dob # voters[2].dob

\* C7 as stated: a registration whose phone is the phone of a stored voter
\* fails with DUPLICATE_VOTER of kind phone
C7_Original ==
    [][\A req \in DupRegReqs :
          (PhoneCollisions(req) # {} /\ Registers(req))
              => Duplicate(last', "phone")]_vars

\* C7: a registration whose phone is the phone of a stored voter never
\* succeeds, and it fails with DUPLICATE_VOTER of kind phone exactly when it
\* passes validation, the OTP gate and the proof gate
C7_PhoneDuplicate ==
    [][\A req \in DupRegReqs :
          (PhoneCollisions(req) # {} /\ Registers(req))
              => /\ ~Ok(last')
                 /\ voters' = voters
                 /\ ReachesDuplicateCheck(req) <=> Duplicate(last', "phone")]_vars

\* a registration has been refused for its phone while another is stored
C7_Witness ==
    /\ last.op = "register"
    /\ Duplicate(last, "phone")
    /\ \E i \in 1..Len(voters) : last.out = <<voters[i].voterId, voters[i].name>>

\* C8 as stated: a registration whose name, ignoring case, and DOB are those
\* of a stored voter fails with DUPLICATE_VOTER of kind name_dob
C8_Original ==
    [][\A req \in DupRegReqs :
          (NameDobCollisions(req) # {} /\ Registers(req))
              => Duplicate(last', "name_dob")]_vars

\* C8: a registration is refused with kind name_dob exactly when it passes
\* validation, the OTP gate and the proof gate, its phone is the phone of no
\* stored voter, and its name, ignoring case, and DOB are those of a stored
\* voter; with such a name and DOB it never succeeds
C8_NameDobDuplicate ==
    [][\A req \in DupRegReqs :
          Registers(req)
              => /\ Duplicate(last', "name_dob")
                     <=> /\ ReachesDuplicateCheck(req)
                         /\ PhoneCollisions(req) = {}
                         /\ NameDobCollisions(req) # {}
                 /\ NameDobCollisions(req) # {} => ~Ok(last')]_vars

\* a registration under another phone has been refused with kind name_dob,
\* naming a stored voter whose name differs from the request's only by case
C8_Witness ==
    /\ last.op = "register"
    /\ Duplicate(last, "name_dob")
    /\ \E req \in DupRegReqs :
          /\ RegisterGates(voters, otpStore, req) = last
          /\ BodyTable[req].cName # last.out[2]

\* C9 as stated: a descriptor closer than 0.45 to a stored one is refused with
\* kind face, and one whose smallest distance is exactly 0.45, with no phone
\* or name+DOB collision, is registered
C9_Original ==
    [][\A req \in DupRegReqs :
          Registers(req)
              => /\ FaceCollisions(req) # {} => Duplicate(last', "face")
                 /\ (/\ PhoneCollisions(req) = {}
                     /\ NameDobCollisions(req) = {}
                     /\ FaceCollisions(req) = {}
                     /\ \E i \in 1..Len(voters) :
                           euclidean(req.face.vals, voters[i].faceDescriptor)
                               = FaceThresholdSq)
                        => Ok(last')]_vars

\* C9: among the registrations that pass validation, the OTP gate and the
\* proof gate and collide with no stored voter by phone or by name+DOB, one
\* whose descriptor is closer than 0.45 to a stored one is refused with kind
\* face, and every other one, a smallest distance of exactly 0.45 included,
\* is registered; a descriptor closer than 0.45 is never registered
C9_FaceDuplicate ==
    [][\A req \in DupRegReqs :
          Registers(req)
              => /\ (/\ ReachesDuplicateCheck(req)
                     /\ PhoneCollisions(req) = {}
                     /\ NameDobCollisions(req) = {})
                        => IF FaceCollisions(req) # {}
                           THEN Duplicate(last', "face")
                           ELSE Ok(last') /\ Len(voters') = Len(voters) + 1
                 /\ FaceCollisions(req) # {} => ~Ok(last')]_vars

\* a voter has been registered at exactly 0.45 from a stored voter
C9_Witness ==
    /\ last.op = "register"
    /\ Ok(last)
    /\ Len(voters) = 2
    /\ last.out[1] = voters[2].voterId
    /\ euclidean(voters[1].faceDescriptor, voters[2].faceDescriptor)
           = FaceThresholdSq

\* the first stored voter among the collisions cs, as the response names it
Named(cs) ==
    LET i == CHOOSE k \in cs : \A m \in cs : k <= m
    IN  <<voters[i].voterId, voters[i].name>>

\* C10: a refused duplicate reports one collision, by priority: the phone
\* collision when there is one, whatever else collides and with whichever
\* voter; otherwise the name+DOB collision when there is one, even if a face
\* collides; otherwise the face collision
C10_PriorityOrder ==
    [][\A req \in DupRegReqs :
          (ReachesDuplicateCheck(req) /\ Registers(req))
              => IF PhoneCollisions(req) # {}
                 THEN /\ Duplicate(last', "phone")
                      /\ last'.out = Named(PhoneCollisions(req))
                 ELSE IF NameDobCollisions(req) # {}
                 THEN /\ Duplicate(last', "name_dob")
                      /\ last'.out = Named(NameDobCollisions(req))
                 ELSE IF FaceCollisions(req) # {}
                 THEN Duplicate(last', "face")
                 ELSE Ok(last')]_vars

\* a registration has been refused with kind phone where every body that
\* gets this response also collides by name+DOB, and one of them collides by
\* name+DOB and by face with another voter than the one named
C10_Witness ==
    /\ last.op = "register"
    /\ Duplicate(last, "phone")
    /\ \E req \in DupRegReqs :
          /\ RegisterGates(voters, otpStore, req) = last
          /\ NameDobCollisions(req) \ PhoneCollisions(req) # {}
          /\ FaceCollisions(req) \ PhoneCollisions(req) # {}
    /\ \A req \in DupRegReqs :
          RegisterGates(voters, otpStore, req) = last
              => NameDobCollisions(req) # {}

\* ---- registrations of three people whose faces alone can collide ----

FaceUuids == 3

\* the draw that mints each person's voter ID, one per phone
FaceDraw(req) ==
    IF req.phone = PhoneA THEN 0 ELSE IF req.phone = PhoneB THEN 1 ELSE 2

NextFace ==
    \/ \E p \in FacePeople : SendOtp(p[3], TheCode)
    \/ \E p \in FacePeople : VerifyOtp(p[3], NatToString(TheCode), FewVerifyCalls)
    \/ \E req \in FaceRegReqs : RegisterVoter(req, FaceDraw(req), FaceUuids)

SpecFace == Init /\ [][NextFace]_vars

FaceRegisters(req) ==
    last'.op = "register" /\ RegisterVoter(req, FaceDraw(req), FaceUuids)

\* the stored voters at the least distance from the body's descriptor
Nearest(req) ==
    {i \in 1..Len(voters) :
        \A j \in 1..Len(voters) :
            euclidean(req.face.vals, voters[i].faceDescriptor)
                <= euclidean(req.face.vals, voters[j].faceDescriptor)}

\* C23: a face collision names the stored voter at the least distance from the
\* submitted descriptor, the first in store order among equally near ones,
\* whichever voters nearer than 0.45 come before it in the store
C23_NearestFace ==
    [][\A req \in FaceRegReqs :
          (/\ FaceRegisters(req)
           /\ ReachesDuplicateCheck(req)
           /\ PhoneCollisions(req) = {} /\ NameDobCollisions(req) = {}
           /\ FaceCollisions(req) # {})
              => /\ Duplicate(last', "face")
                 /\ last'.out = Named(Nearest(req))
                 /\ voters' = voters]_vars

\* a face duplicate that names the second stored voter although the first is
\* nearer than 0.45 too
C23_Witness ==
    /\ last.op = "register"
    /\ Duplicate(last, "face")
    /\ Len(voters) = 2
    /\ last.out = <<voters[2].voterId, voters[2].name>>
    /\ \E req \in FaceRegReqs :
          /\ RegisterGates(voters, otpStore, req) = last
          /\ FaceCollisions(req) = {1, 2} /\ Nearest(req) = {2}

\* a face duplicate for a body equally near to both stored voters
C23_TieWitness ==
    /\ last.op = "register"
    /\ Duplicate(last, "face")
    /\ Len(voters) = 2
    /\ last.out = <<voters[1].voterId, voters[1].name>>
    /\ \E req \in FaceRegReqs :
          RegisterGates(voters, otpStore, req) = last /\ Nearest(req) = {1, 2}

(***************************************************************************)
(* The whole service: registration, sessions, ballots and the admin's      *)
(* changes to elections                                                    *)
(***************************************************************************)
VotePhones == {PhoneB}

\* the draws of crypto.randomBytes(3) in the voting scenario
VoterIdDraws == {0}

\* the voter ids typed at /api/voter/session: the one minted, in lower case,
\* and one that was never minted
TypedVoterIds == {toLowerCase(MintVoterId(0)), MintVoterId(1)}

\* the clock of the voting scenario advances by TickSpan, VoteTicks times
TickSpan == 8 * DayMs

VoteTicks == 1

\* registrations draw uuidv4() values while fewer than RegUuids have been
\* drawn; an election with two candidates can still be created after them
RegUuids == 1

VoteUuids == RegUuids + 3

\* an election open to voters of 18 and older, and a body with a bad age range
AdultsBody ==
    [title |-> <<"T">>, startDate |-> 0, endDate |-> 10 * DayMs,
     candidates |-> <<NameAnn, NameBob>>, minAge |-> 18, maxAge |-> 0]

BadRangeBody == [AdultsBody EXCEPT !.minAge = 30, !.maxAge = 20]

ElectionBodies == {AdultsBody, BadRangeBody}

\* the election ids a client can have seen
KnownElectionIds ==
    {ElectionOneId} \cup {elections[i].id : i \in 1..Len(elections)}
        \cup {votes[i].electionId : i \in 1..Len(votes)}

\* the candidate ids a client sends: one of the seeded election, the first of
\* each stored election, and one that no election has
CandidateInputs ==
    {<<"c", "1">>, <<"z", "z">>}
        \cup {elections[i].candidates[1].id : i \in 1..Len(elections)}

StatusInputs == {"active", "closed", "paused"}

Next ==
    \/ \E raw \in VotePhones : SendOtp(raw, TheCode)
    \/ \E raw \in VotePhones : VerifyOtp(raw, NatToString(TheCode), FewVerifyCalls)
    \/ \E req \in VoteRegReqs, r \in VoterIdDraws : RegisterVoter(req, r, RegUuids)
    \/ \E i \in 1..Len(voters) : AdminDeleteVoter(voters[i].id)
    \/ \E rawId \in TypedVoterIds : VoterSession(rawId)
    \/ \E s \in sessions : VoterLogout(s)
    \/ \E s \in sessions, rawEl \in KnownElectionIds, rawCand \in CandidateInputs :
          CastVote(s, rawEl, rawCand)
    \/ \E body \in ElectionBodies : AdminCreateElection(body, VoteUuids)
    \/ \E id \in KnownElectionIds, status \in StatusInputs : AdminSetStatus(id, status)
    \/ \E id \in KnownElectionIds : AdminDeleteElection(id)
    \/ Tick(TickSpan, VoteTicks * TickSpan)

Spec == Init /\ [][Next]_vars

\* C1: the vote store never holds two votes with the same electionId and the
\* same voterId
C1_OneVotePerVoterPerElection ==
    \A i, j \in 1..Len(votes) :
        i < j => ~(/\ votes[i].electionId = votes[j].electionId
                   /\ votes[i].voterId = votes[j].voterId)

\* one voter has voted in two elections and a further ballot of theirs has
\* just been refused
C1_Witness ==
    /\ Len(votes) = 2
    /\ votes[1].voterId = votes[2].voterId
    /\ last.op = "vote"
    /\ ~Ok(last)

\* the voter of session s has a vote stored for the election rawEl
Voted(s, rawEl) ==
    \E i \in 1..Len(votes) :
        votes[i].electionId = cleanId(rawEl) /\ votes[i].voterId = s.id

\* the step is the ballot of session s for rawCand in rawEl
Casts(s, rawEl, rawCand) == last'.op = "vote" /\ CastVote(s, rawEl, rawCand)

\* C2 as stated: once a voter's ballot in an election has succeeded, every
\* later ballot of theirs in that election fails with AlreadyVoted
C2_Original ==
    [][last'.op = "vote" =>
          \A s \in sessions, rawEl \in KnownElectionIds, rawCand \in CandidateInputs :
              (Voted(s, rawEl) /\ Casts(s, rawEl, rawCand))
                  => last'.status = 400 /\ last'.error = ErrAlreadyVoted]_vars

\* C2: once a voter's ballot in an election has succeeded, every later ballot
\* of theirs in that election fails and stores nothing, whatever the
\* candidate; the error is AlreadyVoted when the election still exists, is
\* active and open and the voter passes its age gate, and otherwise the error
\* of the first of those gates that fails
C2_SecondBallotRefused ==
    [][last'.op = "vote" =>
          \A s \in sessions, rawEl \in KnownElectionIds, rawCand \in CandidateInputs :
              (Voted(s, rawEl) /\ Casts(s, rawEl, rawCand))
                  => LET el == FindElection(elections, cleanId(rawEl))
                     IN  /\ ~Ok(last')
                         /\ votes' = votes
                         /\ last'.error =
                               IF el = NoElection THEN ErrElectionNotFound
                               ELSE IF el.status # "active" THEN ErrNotActive
                               ELSE IF now < el.startDate \/ now > el.endDate
                               THEN ErrNotOpen
                               ELSE IF AgeGate(el, voters, s.id, now) # NoRequest
                               THEN AgeGate(el, voters, s.id, now).error
                               ELSE ErrAlreadyVoted]_vars

\* a further ballot of a logged-in voter has been refused with AlreadyVoted
\* in the election that holds their vote
C2_Witness ==
    /\ last.op = "vote"
    /\ last.error = ErrAlreadyVoted
    /\ Len(votes) = 1
    /\ \E s \in sessions : Voted(s, votes[1].electionId)

\* the voter of session s is refused by the age gate of election el: the
\* election has an age bound and the voter is gone, has no DOB, or has an age
\* outside the bounds that are set
AgeRefused(el, s) ==
    /\ el.minAge > 0 \/ el.maxAge > 0
    /\ \/ \A i \in 1..Len(voters) : voters[i].id # s.id
       \/ \E i \in 1..Len(voters) :
             /\ voters[i].id = s.id
             /\ \A j \in 1..(i - 1) : voters[j].id # s.id
             /\ \/ voters[i].dob = <<>>
                \/ LET dob == LocalDob(ParseDate(voters[i].dob))
                       age == AgeAt(dob, LocalDateOf(now))
                   IN  /\ dob.ok
                       /\ \/ el.minAge > 0 /\ age < el.minAge
                          \/ el.maxAge > 0 /\ age > el.maxAge

\* whether the error is the one of the age gate
AgeError(error) == error \in {ErrNoDob, ErrAge}

\* the gate that refuses the ballot of session s for rawCand in rawEl: the
\* first that fails in the order election exists, active, time window, age
\* window, already voted, candidate valid; "none" when all pass
FirstFailedVoteGate(s, rawEl, rawCand) ==
    LET ids == {i \in 1..Len(elections) : elections[i].id = cleanId(rawEl)}
        el == elections[CHOOSE i \in ids : \A j \in ids : i <= j]
    IN  IF ids = {} THEN "exists"
        ELSE IF el.status # "active" THEN "active"
        ELSE IF now < el.startDate \/ now > el.endDate THEN "window"
        ELSE IF AgeRefused(el, s) THEN "age"
        ELSE IF Voted(s, rawEl) THEN "voted"
        ELSE IF \A k \in 1..Len(el.candidates) :
                    el.candidates[k].id # cleanId(rawCand)
        THEN "candidate"
        ELSE "none"

\* the gate that the error of a vote response belongs to
GateOfError(error) ==
    IF error = ErrElectionNotFound THEN "exists"
    ELSE IF error = ErrNotActive THEN "active"
    ELSE IF error = ErrNotOpen THEN "window"
    ELSE IF AgeError(error) THEN "age"
    ELSE IF error = ErrAlreadyVoted THEN "voted"
    ELSE IF error = ErrCandidate THEN "candidate"
    ELSE "none"

\* C12: castVote answers with the error of the first gate that fails, in the
\* order election exists, election active, time window, age window, already
\* voted, candidate valid, and succeeds when none fails
C12_VoteGateOrder ==
    [][last'.op = "vote" =>
          \A s \in sessions, rawEl \in KnownElectionIds, rawCand \in CandidateInputs :
              \/ /\ GateOfError(last'.error) = FirstFailedVoteGate(s, rawEl, rawCand)
                 /\ Ok(last') <=> last'.error = ""
              \/ ~Casts(s, rawEl, rawCand)]_vars

\* the only election is closed and holds the vote of the only logged-in
\* voter, whose further ballot has been refused because it is not active
C12_Witness ==
    /\ last.op = "vote"
    /\ last.error = ErrNotActive
    /\ Len(elections) = 1
    /\ elections[1].status = "closed"
    /\ Len(votes) = 1
    /\ votes[1].electionId = elections[1].id
    /\ \A s \in sessions : s.id = votes[1].voterId
    /\ now > elections[1].endDate

\* C18: a registration that answers with an error leaves the voter store and
\* the OTP ledger as they were, and a ballot that answers with an error
\* leaves the vote store as it was
C18_ErrorsChangeNothing ==
    [][/\ (last'.op = "register" /\ ~Ok(last'))
             => voters' = voters /\ otpStore' = otpStore
       /\ (last'.op = "vote" /\ ~Ok(last')) => votes' = votes]_vars

\* a registration has been refused as a duplicate while the ledger holds the
\* verified OTP of its phone and the stores hold a voter and a vote
C18_Witness ==
    /\ last.op = "register"
    /\ last.error = ErrDuplicate
    /\ \E p \in DOMAIN otpStore : otpStore[p].verified
    /\ Len(voters) = 1
    /\ Len(votes) = 1

\* C22: the vote store is append-only: a successful ballot adds one record at
\* the end, with the request's election id, the session voter's id and the
\* candidate id chosen, and every other step leaves the store as it was
C22_AppendOnly ==
    [][IF last'.op = "vote" /\ Ok(last')
       THEN /\ Len(votes') = Len(votes) + 1
            /\ SubSeq(votes', 1, Len(votes)) = votes
            /\ \E s \in sessions, rawEl \in KnownElectionIds,
                  rawCand \in CandidateInputs :
                  /\ votes'[Len(votes')].electionId = cleanId(rawEl)
                  /\ votes'[Len(votes')].voterId = s.id
                  /\ votes'[Len(votes')].candidateId = cleanId(rawCand)
                  /\ Casts(s, rawEl, rawCand)
       ELSE votes' = votes]_vars

\* the store still holds a vote after its election and its voter were deleted
C22_Witness ==
    /\ Len(votes) = 1
    /\ voters = <<>>
    /\ FindElection(elections, votes[1].electionId) = NoElection
    /\ last.op \in {"deleteElection", "deleteVoter"}

\* C27 as stated: every vote is cast by a voter who is in the voter store at
\* the moment of casting, in elections with and without an age window
C27_Original ==
    [][(last'.op = "vote" /\ Ok(last'))
          => FindVoter(voters, votes'[Len(votes')].voterId) # NoVoter]_vars

\* C29: every vote was valid when it was written: in the state the ballot was
\* cast in, its election was stored with status active, the time lay within
\* [startDate, endDate], and its candidate was one of that election's
C29_ValidWhenWritten ==
    [][Len(votes') > Len(votes)
          => LET v == votes'[Len(votes')]
             IN  /\ last'.op = "vote"
                 /\ \E i \in 1..Len(elections) :
                       /\ elections[i].id = v.electionId
                       /\ \A j \in 1..(i - 1) : elections[j].id # v.electionId
                       /\ elections[i].status = "active"
                       /\ elections[i].startDate <= now
                       /\ now <= elections[i].endDate
                       /\ \E c \in 1..Len(elections[i].candidates) :
                             elections[i].candidates[c].id = v.candidateId]_vars

\* a second vote has just been written while the election of the first is no
\* longer active
C29_Witness ==
    /\ last.op = "vote" /\ Ok(last)
    /\ Len(votes) = 2
    /\ votes[1].electionId # votes[2].electionId
    /\ LET el == FindElection(elections, votes[1].electionId)
       IN  el = NoElection \/ el.status # "active"

(***************************************************************************)
(* The gates of registration and the voter ids it mints                    *)
(***************************************************************************)
GatePhones == {PhoneA, PhoneB}

\* the draws of crypto.randomBytes(3) in the gate scenario
GateDraws == {0, 1}

NextGate ==
    \/ \E raw \in GatePhones : SendOtp(raw, TheCode)
    \/ \E raw \in GatePhones : VerifyOtp(raw, NatToString(TheCode), FewVerifyCalls)
    \/ \E req \in GateRegReqs, r \in GateDraws : RegisterVoter(req, r, MaxUuids)

SpecGate == Init /\ [][NextGate]_vars

\* the step is the registration request req of the gate scenario
GateRegisters(req) ==
    last'.op = "register" /\ \E r \in GateDraws : RegisterVoter(req, r, MaxUuids)

\* the error of the first gate that the request fails, in the order name, DOB,
\* phone, descriptor shape, descriptor elements, flat descriptor, OTP, proof,
\* duplicate; the empty string when it fails none
FirstFailedGate(req) ==
    LET b == BodyTable[req]
    IN  IF Len(b.cName) < 2 THEN ErrName
        ELSE IF b.cDob = <<>> THEN ErrDob
        ELSE IF Len(b.cPhone) < PhoneLen THEN ErrPhone
        ELSE IF ~req.face.isArray \/ Len(req.face.vals) # FaceLen THEN ErrFace
        ELSE IF req.face.bad THEN ErrFaceCorrupt
        ELSE IF Degenerate(req.face.vals) THEN ErrFaceFlat
        ELSE IF ~(b.cPhone \in DOMAIN otpStore /\ otpStore[b.cPhone].verified)
        THEN ErrOtpRequired
        ELSE IF ~req.proofVerified THEN ErrProof
        ELSE IF PhoneCollisions(req) \cup NameDobCollisions(req)
                    \cup FaceCollisions(req) # {}
        THEN ErrDuplicate
        ELSE ""

\* C11: registerVoter answers with the error of the first gate that fails, in
\* the order name, DOB, phone, descriptor shape, degenerate capture, OTP,
\* proof, duplicate, and succeeds when none fails
C11_RegisterGateOrder ==
    [][last'.op = "register" =>
          \A req \in GateRegReqs :
              last'.error = FirstFailedGate(req) \/ ~GateRegisters(req)]_vars

\* with both persons registered, a registration has been refused for its
\* unverified phone: every body that gets past the validations duplicates a
\* stored voter
C11_Witness ==
    /\ last.op = "register"
    /\ last.error = ErrOtpRequired
    /\ Len(voters) = 2
    /\ \A req \in GateRegReqs :
          RegisterGates(voters, otpStore, req) = last => PhoneCollisions(req) # {}

(***************************************************************************)
(* Eligibility of a ballot: the time window and the age window             *)
(***************************************************************************)
\* the clock of the eligibility scenario advances by half a day, up to
\* EligDays days
EligDays == 2

HalfDayMs == 12 * HourMs

\* uuidv4() values of the eligibility scenario: of one voter and one election
\* with two candidates
EligUuids == 4

\* elections of the eligibility scenario: one that opens after half a day and
\* closes a day later, without age bounds; one for voters of 18 and older;
\* one for voters of 17 and younger
WindowBody ==
    [title |-> <<"T">>, startDate |-> HalfDayMs, endDate |-> 3 * HalfDayMs,
     candidates |-> <<NameAnn, NameBob>>, minAge |-> 0, maxAge |-> 0]

MinorsBody == [AdultsBody EXCEPT !.minAge = 0, !.maxAge = 17]

EligBodies == {WindowBody, AdultsBody, MinorsBody}

InitElig == \E tz \in TimeZones : InitEnv([isProd |-> FALSE, tz |-> tz])

\* the person of the scenario registers when the server starts, before any
\* election is created
NextElig ==
    \/ \E raw \in VotePhones : now = 0 /\ SendOtp(raw, TheCode)
    \/ \E raw \in VotePhones :
          now = 0 /\ VerifyOtp(raw, NatToString(TheCode), FewVerifyCalls)
    \/ \E req \in EligRegReqs, r \in VoterIdDraws :
          now = 0 /\ nextUuid = 0 /\ RegisterVoter(req, r, EligUuids)
    \/ \E i \in 1..Len(voters) : AdminDeleteVoter(voters[i].id)
    \/ \E i \in 1..Len(voters) : VoterSession(voters[i].voterId)
    \/ \E s \in sessions, rawEl \in KnownElectionIds, rawCand \in CandidateInputs :
          CastVote(s, rawEl, rawCand)
    \/ \E body \in EligBodies : AdminCreateElection(body, EligUuids + 1)
    \/ Tick(HalfDayMs, EligDays * DayMs)

SpecElig == InitElig /\ [][NextElig]_vars

\* C13: a ballot in an active election is refused with ElectionNotOpen at
\* every time strictly before startDate or strictly after endDate, and is not
\* refused by the time gate at startDate, at endDate or between them
C13_TimeWindow ==
    [][last'.op = "vote" =>
          \A s \in sessions, rawEl \in KnownElectionIds, rawCand \in CandidateInputs :
              LET el == FindElection(elections, cleanId(rawEl))
              IN  (/\ el # NoElection
                   /\ el.status = "active"
                   /\ Casts(s, rawEl, rawCand))
                      => (last'.error = ErrNotOpen
                            <=> (now < el.startDate \/ now > el.endDate))]_vars

\* the only vote has just been accepted at the very instant its election
\* closes
C13_Witness ==
    /\ last.op = "vote"
    /\ Ok(last)
    /\ Len(votes) = 1
    /\ FindElection(elections, votes[1].electionId).endDate = now

\* the ballot of session s in rawEl reaches the age gate of an election for
\* voters of minA and older, and s is a stored voter whose DOB is a date
AtAgeGate(s, rawEl, minA) ==
    LET el == FindElection(elections, cleanId(rawEl))
        vr == FindVoter(voters, s.id)
    IN  /\ el # NoElection
        /\ el.status = "active"
        /\ ~(now < el.startDate \/ now > el.endDate)
        /\ el.minAge = minA
        /\ el.maxAge = 0
        /\ vr # NoVoter
        /\ ParseDate(vr.dob).ok

\* the whole years from the calendar day written in dob to the calendar day
\* today: the year difference, less one before this year's birthday
CalendarAge(dob, today) == AgeAt(ParseDate(dob), today)

\* C14 as stated: with minAge=18 and maxAge=0 a voter who has not reached the
\* 18th birthday (whether today is the day of the host's local time or of UTC)
\* is refused with AgeRestricted, and a voter who has reached it passes
C14_Original ==
    [][last'.op = "vote" =>
          \A s \in sessions, rawEl \in KnownElectionIds, rawCand \in CandidateInputs :
              (AtAgeGate(s, rawEl, 18) /\ Casts(s, rawEl, rawCand))
                  => LET dob == FindVoter(voters, s.id).dob
                         local == CalendarAge(dob, LocalDateOf(now))
                         utc == CalendarAge(dob, DateOf(now))
                     IN  /\ (local < 18 /\ utc < 18) => last'.error = ErrAge
                         /\ (local >= 18 /\ utc >= 18) => ~AgeError(last'.error)]_vars

\* the ballot in rawEl gets past the gates that precede the age gate
ReachesAgeGate(rawEl) ==
    LET el == FindElection(elections, cleanId(rawEl))
    IN  /\ el # NoElection
        /\ el.status = "active"
        /\ ~(now < el.startDate \/ now > el.endDate)

\* the age in the response of a ballot refused with AgeRestricted
ReportedAge(r) == ParseNat(r.out[1])

\* C15: a bound of 0 disables its side of the age window: with minAge=0 a
\* ballot is refused with AgeRestricted only for an age above maxAge, with
\* maxAge=0 only for an age below minAge, and with both 0 the age gate returns
\* neither AgeRestricted nor MissingDOB
C15_ZeroDisables ==
    [][last'.op = "vote" =>
          \A s \in sessions, rawEl \in KnownElectionIds, rawCand \in CandidateInputs :
              (ReachesAgeGate(rawEl) /\ Casts(s, rawEl, rawCand))
                  => LET el == FindElection(elections, cleanId(rawEl))
                     IN  /\ (el.minAge = 0 /\ last'.error = ErrAge)
                               => el.maxAge > 0 /\ ReportedAge(last') > el.maxAge
                         /\ (el.maxAge = 0 /\ last'.error = ErrAge)
                               => el.minAge > 0 /\ ReportedAge(last') < el.minAge
                         /\ (el.minAge = 0 /\ el.maxAge = 0)
                               => ~AgeError(last'.error)]_vars

\* a client whose voter record has been deleted has just voted in an election
\* without age bounds, where an election with a bound answers MissingDOB
C15_Witness ==
    /\ last.op = "vote"
    /\ Ok(last)
    /\ voters = <<>>
    /\ Len(votes) = 1
    /\ LET el == FindElection(elections, votes[1].electionId)
       IN  el # NoElection /\ el.minAge = 0 /\ el.maxAge = 0

\* C16 as stated: the public Voter IDs of the stored voters are pairwise
\* distinct, whatever suffix each registration draws
C16_Original ==
    \A i, j \in 1..Len(voters) : i < j => voters[i].voterId # voters[j].voterId

(***************************************************************************)
(* The OTP routes on a production host                                     *)
(***************************************************************************)
\* NODE_ENV=production
InitProd == InitEnv([isProd |-> TRUE, tz |-> 0])

SpecProd == InitProd /\ [][NextOtp]_vars

\* C17 as stated: in production mode the response of sendOtp does not contain
\* the code that was generated
C17_Original ==
    (env.isProd /\ last.op = "send" /\ Ok(last))
        => \A p \in DOMAIN otpStore : \A i \in DOMAIN last.out :
               last.out[i] # otpStore[p].otp

(***************************************************************************)
(* Register and vote requests served in parallel: each handler reads the   *)
(* store with readJSON, runs its gates on what it read, pushes onto the    *)
(* array it read and writes that array back with writeJSON                 *)
(***************************************************************************)
\* requests of the race scenario that get past their gates
RaceRequests == 4

\* a request that got past its gates: the array it read, the record it will
\* push, the key that its existence check looked for, whether it has written,
\* and whether it ran from read to write with no other request in between
Pending(kind, key, snap, item, out) ==
    [kind |-> kind, key |-> key, snap |-> snap, item |-> item, out |-> out,
     done |-> FALSE, alone |-> \A i \in 1..Len(inflight) : inflight[i].done]

\* the requests in flight after one more has read the store
Overlapped(reqs) ==
    [i \in 1..Len(reqs) |->
        IF reqs[i].done THEN reqs[i] ELSE [reqs[i] EXCEPT !.alone = FALSE]]

\* /api/voter/register up to the last early return: readJSON and the gates
BeginRegister(req, r, maxRequests) ==
    LET gate == RegisterGates(voters, otpStore, req)
        b == BodyTable[req]
        voterId == MintVoterId(r)
    IN  /\ r \in RandomBytes3
        /\ IF gate # NoRequest
           THEN /\ last' = gate
                /\ UNCHANGED <<nextUuid, inflight>>
           ELSE /\ Len(inflight) < maxRequests
                /\ inflight' = Append(Overlapped(inflight),
                      Pending("register", b.cPhone, voters,
                              NewVoter(req, Uuid(nextUuid), voterId),
                              <<voterId, b.cName>>))
                /\ nextUuid' = nextUuid + 1
                /\ last' = Resp("readVoters", 0, "", "", <<>>)
        /\ UNCHANGED <<otpStore, voters, votes, elections, sessions, now,
                       otpHist, env>>

\* voters.push(...); writeJSON(VOTERS_FILE,voters); otpStore.delete(cPhone);
\* res.json({success:true,...}) of the request in flight i
FinishRegister(i) ==
    /\ i \in 1..Len(inflight)
    /\ inflight[i].kind = "register"
    /\ ~inflight[i].done
    /\ voters' = Append(inflight[i].snap, inflight[i].item)
    /\ otpStore' = ConsumeOtp(otpStore, inflight[i].key)
    /\ otpHist' = HistRegister(otpHist, inflight[i].key)
    /\ inflight' = [inflight EXCEPT ![i].done = TRUE]
    /\ last' = Resp("register", 200, "", "", inflight[i].out)
    /\ UNCHANGED <<votes, elections, sessions, now, nextUuid, env>>

\* /api/voter/vote up to the last early return: readJSON and the gates
BeginVote(s, rawEl, rawCand, maxRequests) ==
    LET elId == cleanId(rawEl)
        cId == cleanId(rawCand)
        gate == VoteGates(elections, votes, voters, now, s, elId, cId)
    IN  /\ s \in sessions
        /\ IF gate # NoRequest
           THEN /\ last' = gate
                /\ UNCHANGED inflight
           ELSE /\ Len(inflight) < maxRequests
                /\ inflight' = Append(Overlapped(inflight),
                      Pending("vote", <<elId, s.id>>, votes, NewVote(s, elId, cId),
                              <<FindCandidate(FindElection(elections, elId),
                                              cId).name>>))
                /\ last' = Resp("readVotes", 0, "", "", <<>>)
        /\ UNCHANGED <<otpStore, voters, votes, elections, sessions, now,
                       nextUuid, otpHist, env>>

\* votes.push(...); writeJSON(VOTES_FILE,votes); res.json({success:true,...})
\* of the request in flight i
FinishVote_OnStore(i) ==
    /\ i \in 1..Len(inflight)
    /\ inflight[i].kind = "vote"
    /\ ~inflight[i].done
    /\ votes' = Append(votes, inflight[i].item)
    /\ inflight' = [inflight EXCEPT ![i].done = TRUE]
    /\ last' = Resp("vote", 200, "", "", inflight[i].out)
    /\ UNCHANGED <<otpStore, voters, elections, sessions, now, nextUuid,
                   otpHist, env>>

FinishVote(i) ==
    /\ i \in 1..Len(inflight)
    /\ inflight[i].kind = "vote"
    /\ ~inflight[i].done
    /\ votes' = Append(inflight[i].snap, inflight[i].item)
    /\ inflight' = [inflight EXCEPT ![i].done = TRUE]
    /\ last' = Resp("vote", 200, "", "", inflight[i].out)
    /\ UNCHANGED <<otpStore, voters, elections, sessions, now, nextUuid,
                   otpHist, env>>

\* the candidates that ballots of the race scenario name
RaceCandidates == {<<"c", "1">>, <<"c", "2">>}

NextRace ==
    \/ \E raw \in VotePhones : SendOtp(raw, TheCode)
    \/ \E raw \in VotePhones : VerifyOtp(raw, NatToString(TheCode), FewVerifyCalls)
    \/ \E req \in VoteRegReqs, r \in VoterIdDraws :
          BeginRegister(req, r, RaceRequests)
    \/ \E i \in 1..Len(inflight) : FinishRegister(i)
    \/ \E i \in 1..Len(voters) : VoterSession(voters[i].voterId)
    \/ \E s \in sessions, rawCand \in RaceCandidates :
          BeginVote(s, ElectionOneId, rawCand, RaceRequests)
    \/ \E i \in 1..Len(inflight) : FinishVote(i)

SpecRace == Init /\ [][NextRace]_vars

\* the stored records that the existence check of request q looks for
Stored(q) ==
    IF q.kind = "vote"
    THEN {k \in 1..Len(votes) :
             <<votes[k].electionId, votes[k].voterId>> = q.key}
    ELSE {k \in 1..Len(voters) : voters[k].phone = q.key}

\* two requests with the same key, both past their existence check before
\* either wrote, have both written
BothWritten(i, j) ==
    /\ i < j
    /\ inflight[i].kind = inflight[j].kind
    /\ inflight[i].key = inflight[j].key
    /\ inflight[i].done
    /\ inflight[j].done

\* C20 as stated: when two ballots for the same voter and election, or two
\* registrations for the same phone, both pass the existence check before
\* either appends, the store holds two records for the key
C20_Original ==
    \A i, j \in 1..Len(inflight) :
        BothWritten(i, j) => Cardinality(Stored(inflight[i])) = 2

\* C20: two such requests both succeed, but each writes back the array it read
\* with its own record, so the store holds at most one record for the key and
\* never two; when every request runs from its read to its write with no other
\* in between, the store holds the record of every request that succeeded
C20_RaceLosesWrite ==
    /\ \A i \in 1..Len(inflight) : Cardinality(Stored(inflight[i])) <= 1
    /\ (\A i \in 1..Len(inflight) : inflight[i].alone)
          => \A i \in 1..Len(inflight) :
                 inflight[i].done
                     => \/ inflight[i].kind = "vote" /\ inflight[i].item \in Range(votes)
                        \/ inflight[i].kind = "register"
                              /\ inflight[i].item \in Range(voters)

\* two ballots of one voter in one election for different candidates were
\* both answered with success, and the store holds only the one written last
C20_Witness ==
    /\ last.op = "vote"
    /\ Ok(last)
    /\ \E i, j \in 1..Len(inflight) :
          /\ BothWritten(i, j)
          /\ inflight[i].kind = "vote"
          /\ inflight[i].item # inflight[j].item
          /\ Cardinality(Stored(inflight[i])) = 1

====
